---- MODULE Spec2Model ----
(***************************************************************************)
(* A model of one deploy attempt of the Deployer class of src/src/deploy.ts *)
(* (Deployer.deploy and everything it awaits), together with the server it *)
(* talks to and the wall clock it reads.  The Deployer is one chain of     *)
(* async functions: pc is its position, and there is one action per await. *)
(***************************************************************************)
EXTENDS Integers, Sequences, FiniteSets, TLC

(* ------------------------------ bounds -------------------------------- *)

\* The build output holds at most this many files.
MaxFiles == 3

\* The server creates at most this many deploys of the project during a run.
MaxDeploys == 3

\* The largest --max-concurrency given on the command line.
MaxConcurrencyOption == 2

\* The user authorizes the repository by this poll of the authorization loop,
\* or not at all.
MaxAuthorizationPolls == 2

\* The server creates no deploy of the project after this poll of the loop of
\* cloudBuild.
MaxStartPolls == 2

\* A deployPollInterval given in the options, in ms.
LongPollInterval == 150000

\* The numbers of files to upload tried around the rate limit threshold are
\* the threshold less RateMargin up to the threshold plus RateMargin.
RateMargin == 1

(* ----------------------------- constants ------------------------------ *)

DEPLOY_POLL_MAX_MS == 1000 * 60 * 5

DEPLOY_POLL_INTERVAL_MS == 1000 * 5

\* setTimeout(resolve, 2000) of the repository-authorization loop.
GITHUB_POLL_INTERVAL_MS == 1000 * 2

\* An optional value (null, undefined) is a sequence of length at most one.
None == <<>>

Some(x) == <<x>>

\* How much later than asked a setTimeout may fire: not at all, or a whole poll
\* budget (a suspended process).  A request takes no time on this clock: the
\* loops read the clock only after their sleeps.
Delays == {0, DEPLOY_POLL_MAX_MS}

Paths == 1 .. MaxFiles

DeployIds == 1 .. MaxDeploys

\* DeployStatus as the server may send it; "archived" stands for any value the
\* client does not know.
Statuses == {"created", "pending", "uploaded", "failed", "canceled", "archived"}

\* Status codes of a failed request.
HttpStatuses == {"401", "403", "404", "500"}

InstructionStatuses == {"upload", "skip", "error"}

(* ------------------------------ errors -------------------------------- *)

NoError == [kind |-> "none", msg |-> "", detail |-> None]

CliError(msg) == [kind |-> "CliError", msg |-> msg, detail |-> None]

CliErrorWith(msg, detail) == [kind |-> "CliError", msg |-> msg, detail |-> Some(detail)]

\* new CliError(msg, {print: false, exitCode: 0}): what every canceled prompt
\* throws.  The options are kept as the detail.
UserCanceled(msg) == CliErrorWith(msg, <<"print: false", "exitCode: 0">>)

HttpError(statusCode) == [kind |-> "HttpError", msg |-> "request failed", detail |-> Some(statusCode)]

FsError == [kind |-> "Error", msg |-> "file system error", detail |-> None]

isHttpError(error) == error.kind = "HttpError"

(* ------------------------------- state -------------------------------- *)

VARIABLES
  pc,               \* the position of the attempt
  deployOptions,    \* DeployOptions and effects.isTty, fixed for the attempt
  now,              \* Date.now()
  pollExpiration,   \* the pollExpiration of the polling loop being run
  pollCount,        \* polled requests sent by the polling loop being run
  deployTarget,     \* the DeployTargetInfo of startNewDeploy, None before
  deployConfig,     \* the DeployConfig of startNewDeploy, None before
  localRepo,        \* the localRepo of validateGitHubLink while it runs, None otherwise
  deployId,         \* the deploy id the attempt works with, None before
  deployInfo,       \* status of the last GetDeployResponse of the completion poll
  buildFilePaths,   \* the number of build files, paths 1 .. buildFilePaths
  instructions,     \* the server's answer to the manifest: its status and, per path, the file's
  task,             \* per path, where its upload task is
  posted,           \* per path, the POST /cli/deploy/:id/file requests sent for it
  firstError,       \* the first error of an upload task, None without one
  sent,             \* what the client has sent so far (see Init)
  latestCreatedDeployId,  \* the server's latestCreatedDeployId of the project
  result,           \* what deploy() returned
  err,              \* what deploy() threw
  auth,             \* the locals of setApiClientAndCurrentUser while it runs
  answer,           \* the user's answer to the last prompt of the function being run
  loadedConfig,     \* the DeployConfig getUpdatedDeployConfig loaded, while the target is resolved
  persisted,        \* deploy.json as far as the attempt has read or written it
  configWrites,     \* calls of setDeployConfig by the resolution of the target being run
  link,             \* what validateGitHubLink has read, while it runs
  build,            \* the locals of getBuildFilePaths, while it runs
  prompt            \* the locals of promptDeployTarget, while it runs

vars == <<pc, deployOptions, now, pollExpiration, pollCount, deployTarget, deployConfig,
          localRepo, deployId, deployInfo,
          buildFilePaths, instructions, task, posted, firstError, sent,
          latestCreatedDeployId, result, err,
          auth, answer, loadedConfig, persisted, configWrites, link, build, prompt>>

(* ------------------------- reading the state -------------------------- *)

\* deployOptions.deployId is set: the attempt resumes an existing deploy.
resumeMode == deployOptions.deployId # None

\* const {deployPollInterval: pollInterval = DEPLOY_POLL_INTERVAL_MS} = this.deployOptions
pollInterval ==
  IF deployOptions.deployPollInterval = None
    THEN DEPLOY_POLL_INTERVAL_MS
    ELSE deployOptions.deployPollInterval[1]

\* const pollExpiration = Date.now() + DEPLOY_POLL_MAX_MS
PollExpirationFrom(t) == t + DEPLOY_POLL_MAX_MS

\* A deadline check that allows the poll budget twice.
PollExpired_Late(t, expiration) == t > expiration + DEPLOY_POLL_MAX_MS

\* if (Date.now() > pollExpiration)
PollExpired(t, expiration) == t > expiration

Fail(e) == pc' = "failed" /\ err' = e

Count(S) == Cardinality(S)

NextDeployId == IF latestCreatedDeployId = None THEN 1 ELSE latestCreatedDeployId[1] + 1

(* ------------------------------- Init --------------------------------- *)

\* No manifest was answered yet.
NoInstructions == [status |-> "none", files |-> [p \in Paths |-> "none"]]

NothingSent ==
  [ids          |-> {},      \* deploy ids named in deploy-scoped requests
   getDeploy    |-> 0,       \* GET /cli/deploy/:id requests of checkDeployCreated
   checked      |-> None,    \* the status the server answered to checkDeployCreated
   targets      |-> 0,       \* calls of getDeployTarget
   projects     |-> 0,       \* POST /cli/project requests
   builds       |-> 0,       \* calls of effects.build
   deploys      |-> 0,       \* POST /cli/project/:id/deploy requests
   deployProject |-> None,   \* the project id of that request
   triggers     |-> 0,       \* POST /cli/project/:id/build requests
   latestAtTrigger |-> None, \* in the loop of cloudBuild: Some(the server's
                             \* latestCreatedDeployId when that request arrived)
   sourceLinks  |-> 0,       \* postProjectEnvironment requests
   manifests    |-> 0,       \* POST /cli/deploy/:id/manifest requests
   filePosted   |-> FALSE,   \* a POST /cli/deploy/:id/file request was sent
   uploaded     |-> 0,       \* POST /cli/deploy/:id/uploaded requests
   buildManifestRead |-> None, \* while that request is out: how reading _build.json went
   buildManifest |-> None,   \* while that request is out: its payload
   uploadedDone |-> FALSE,   \* that request has returned
   polled       |-> FALSE]   \* a GET /cli/deploy/:id request of the completion poll was sent

\* validateGitHubLink has read nothing.  build_environment_id and source are
\* fields of deployTarget.project; of the rest, None is a value not read.
NoLink ==
  [build_environment_id |-> FALSE, source |-> None, isGit |-> None, remotes |-> None,
   head |-> None, remoteAuthedRepo |-> None]

\* getBuildFilePaths is not running.
NoBuild == [force |-> None, found |-> None, least |-> None, most |-> None, initialValue |-> None]

\* promptDeployTarget is not running.
NoPrompt == [title |-> None, defaultProjectSlug |-> None, projectSlug |-> None]

DeployOptionsSet ==
  [deployId           : {None, Some(1)},
   maxConcurrency     : {None} \cup {Some(n) : n \in 1 .. MaxConcurrencyOption},
   deployPollInterval : {None, Some(LongPollInterval)},
   isTty              : BOOLEAN]

Init ==
  /\ pc = "start"
  /\ deployOptions \in DeployOptionsSet
  /\ now = 0
  /\ pollExpiration = 0
  /\ pollCount = 0
  /\ deployTarget = None
  /\ deployConfig = None
  /\ localRepo = None
  /\ deployId = None
  /\ deployInfo = None
  /\ buildFilePaths = 0
  /\ instructions = NoInstructions
  /\ task = [p \in Paths |-> "none"]
  /\ posted = [p \in Paths |-> 0]
  /\ firstError = None
  /\ sent = NothingSent
  /\ latestCreatedDeployId \in (IF resumeMode THEN {Some(1)} ELSE {None, Some(1)})
  /\ result = None
  /\ err = NoError
  /\ auth = None
  /\ answer = None
  /\ loadedConfig = None
  /\ persisted = None
  /\ configWrites = 0
  /\ link = NoLink
  /\ build = NoBuild
  /\ prompt = NoPrompt

(* --------------------------- Deployer.deploy -------------------------- *)

\* What a confirm prompt may answer: true, false, or the cancel symbol.
Choices == {"yes", "no", "cancel"}

\* A test that takes the cancel symbol only for a refusal.
canceledOrDeclined_CancelOnly(choice) == choice = "cancel"

\* this.effects.clack.isCancel(choice) || !choice
canceledOrDeclined(choice) == choice \in {"cancel", "no"}

\* What getObservableApiKey may answer: null, or a key and where it is from.
ApiKeys == {None} \cup {Some([source |-> src]) : src \in {"file", "env", "login"}}

\* A catch clause that takes a 403 for a 401.
authErrorOf_Unauthenticated(statusCode) ==
  IF statusCode \in {"401", "403"} THEN Some("unauthenticated") ELSE None

\* The catch clause of setApiClientAndCurrentUser: the authError for the status
\* of an HttpError, None for a status it throws again.
authErrorOf(statusCode) ==
  IF statusCode = "401" THEN Some("unauthenticated")
  ELSE IF statusCode = "403" THEN Some("forbidden")
  ELSE None

\* The source of the key as the error message names it.
authSource(apiKey) ==
  IF apiKey.source = "file" THEN " from file"
  ELSE IF apiKey.source = "env" THEN " from env"
  ELSE ""

\* Authentication${source} was rejected by the server: ${authError ?? "unknown error"}
RejectedError(source, authError) ==
  CliErrorWith("Authentication was rejected by the server",
               <<source, IF authError = None THEN "unknown error" ELSE authError[1]>>)

\* What setApiClientAndCurrentUser throws without a user and without a terminal.
nonInteractiveAuthError(apiKey, authError) ==
  IF authError = Some("unauthenticated") \/ apiKey = None
    THEN CliError("No authentication provided")
    ELSE RejectedError(authSource(apiKey[1]), authError)

\* deploy() calls setApiClientAndCurrentUser, which gets the stored API key.
Deploy ==
  /\ pc = "start"
  /\ \E apiKey \in ApiKeys :
       auth' = Some([apiKey |-> apiKey, statusCode |-> None, currentUser |-> FALSE,
                     authError |-> None])
  /\ pc' = "getCurrentUser"
  /\ UNCHANGED <<deployOptions, now, pollExpiration, pollCount, deployTarget, deployConfig, localRepo,
                 deployId, deployInfo, buildFilePaths, instructions, task, posted, firstError,
                 sent, latestCreatedDeployId, result, err>>
  /\ UNCHANGED <<answer, loadedConfig, persisted, configWrites, link>>
  /\ UNCHANGED <<build, prompt>>

\* try { if (apiKey) currentUser = await apiClient.getCurrentUser() ... } catch ...
GetCurrentUser ==
  /\ pc = "getCurrentUser"
  /\ IF auth[1].apiKey = None
       THEN pc' = "checkCurrentUser" /\ UNCHANGED <<auth, err>>
       ELSE /\ \/ /\ auth' = Some([auth[1] EXCEPT !.currentUser = TRUE])
                  /\ pc' = "checkCurrentUser"
                  /\ UNCHANGED err
               \/ \E h \in HttpStatuses :
                    /\ auth' = Some([auth[1] EXCEPT !.statusCode = Some(h),
                                                    !.authError = authErrorOf(h)])
                    /\ IF authErrorOf(h) = None
                         THEN Fail(HttpError(h))
                         ELSE pc' = "checkCurrentUser" /\ UNCHANGED err
               \/ /\ Fail(FsError)
                  /\ UNCHANGED auth
  /\ UNCHANGED <<deployOptions, now, pollExpiration, pollCount, deployTarget, deployConfig, localRepo,
                 deployId, deployInfo, buildFilePaths, instructions, task, posted, firstError,
                 sent, latestCreatedDeployId, result>>
  /\ UNCHANGED <<answer, loadedConfig, persisted, configWrites, link>>
  /\ UNCHANGED <<build, prompt>>

\* Where deploy() goes after setApiClientAndCurrentUser.
afterAuthentication == IF resumeMode THEN "checkDeployCreated" ELSE "getDeployConfig"

\* if (!currentUser) { if (!this.effects.isTty) throw ...; confirm ... }
CheckCurrentUser ==
  /\ pc = "checkCurrentUser"
  /\ IF auth[1].currentUser
       THEN pc' = afterAuthentication /\ auth' = None /\ UNCHANGED err
     ELSE IF ~deployOptions.isTty
       THEN Fail(nonInteractiveAuthError(auth[1].apiKey, auth[1].authError)) /\ auth' = None
       ELSE pc' = "confirmLogin" /\ UNCHANGED <<auth, err>>
  /\ UNCHANGED <<deployOptions, now, pollExpiration, pollCount, deployTarget, deployConfig, localRepo,
                 deployId, deployInfo, buildFilePaths, instructions, task, posted, firstError,
                 sent, latestCreatedDeployId, result>>
  /\ UNCHANGED <<answer, loadedConfig, persisted, configWrites, link>>
  /\ UNCHANGED <<build, prompt>>

\* "... Do you want to do that now?" / "... log in to Observable again?"
\* if (this.effects.clack.isCancel(choice) || !choice) throw ...
ConfirmLogin ==
  /\ pc = "confirmLogin"
  /\ \E choice \in Choices :
       /\ answer' = Some(choice)
       /\ IF ~canceledOrDeclined(choice)
            THEN pc' = "loginInner" /\ UNCHANGED err
            ELSE Fail(UserCanceled("User canceled deploy"))
  /\ UNCHANGED <<deployOptions, now, pollExpiration, pollCount, deployTarget, deployConfig, localRepo,
                 deployId, deployInfo, buildFilePaths, instructions, task, posted, firstError,
                 sent, latestCreatedDeployId, result>>
  /\ UNCHANGED <<auth, loadedConfig, persisted, configWrites, link>>
  /\ UNCHANGED <<build, prompt>>

\* ({currentUser, apiKey} = await loginInner(...)): it throws, or answers with
\* or without a user; if (!currentUser) throw ...
LoginInner ==
  /\ pc = "loginInner"
  /\ \/ \E e \in {HttpError("500"), CliError("You need to be authenticated to run this command")} :
          Fail(e)
     \/ pc' = afterAuthentication /\ UNCHANGED err
  /\ auth' = None
  /\ answer' = None
  /\ UNCHANGED <<deployOptions, now, pollExpiration, pollCount, deployTarget, deployConfig, localRepo,
                 deployId, deployInfo, buildFilePaths, instructions, task, posted, firstError,
                 sent, latestCreatedDeployId, result>>
  /\ UNCHANGED <<loadedConfig, persisted, configWrites, link>>
  /\ UNCHANGED <<build, prompt>>

(* ----------------------- continueExistingDeploy ----------------------- *)

UnexpectedStatusError(status) == CliErrorWith("Deploy has an unexpected status", status)

\* A check that also lets a pending deploy through.
checkDeployCreatedStatus_Pending(status) ==
  IF status \notin {"created", "pending"} THEN UnexpectedStatusError(status) ELSE NoError

\* What checkDeployCreated does with the status of the deploy: an error to
\* throw, or NoError.
checkDeployCreatedStatus(status) ==
  IF status # "created" THEN UnexpectedStatusError(status) ELSE NoError

\* What checkDeployCreated's catch clause throws for the error caught.
checkDeployCreatedCatch(error) ==
  IF isHttpError(error) THEN CliErrorWith("Deploy not found.", error.detail[1]) ELSE error

CheckDeployCreated ==
  /\ pc = "checkDeployCreated"
  /\ \/ /\ \E h \in HttpStatuses : Fail(checkDeployCreatedCatch(HttpError(h)))
        /\ sent' = [sent EXCEPT !.getDeploy = @ + 1, !.ids = @ \cup {deployOptions.deployId[1]}]
     \/ \E status \in Statuses :
          /\ sent' = [sent EXCEPT !.getDeploy = @ + 1, !.checked = Some(status),
                                  !.ids = @ \cup {deployOptions.deployId[1]}]
          /\ IF checkDeployCreatedStatus(status) # NoError
               THEN Fail(checkDeployCreatedCatch(checkDeployCreatedStatus(status)))
               ELSE pc' = "getBuildFilePaths" /\ UNCHANGED err
  /\ deployId' = IF pc' = "failed" THEN deployId ELSE deployOptions.deployId
  /\ UNCHANGED <<deployOptions, now, pollExpiration, pollCount, deployTarget, deployConfig, localRepo,
                 deployInfo, buildFilePaths, instructions, task, posted, firstError,
                 latestCreatedDeployId, result>>
  /\ UNCHANGED <<auth, answer, loadedConfig, persisted, configWrites, link>>
  /\ UNCHANGED <<build, prompt>>

(* --------------------------- startNewDeploy --------------------------- *)

\* A project slug or a workspace login is the sequence of its characters.
SlugChars ==
  {"a", "b", "c", "d", "e", "f", "g", "h", "i", "j", "k", "l", "m", "n", "o", "p", "q", "r",
   "s", "t", "u", "v", "w", "x", "y", "z", "0", "1", "2", "3", "4", "5", "6", "7", "8", "9", "-"}

\* projectSlug.match(/^[a-z0-9-]+$/)
matchesSlug(slug) == Len(slug) > 0 /\ \A i \in DOMAIN slug : slug[i] \in SlugChars

\* workspaceLogin.match(/^@?[a-z0-9-]+$/)
matchesLogin(login) ==
  matchesSlug(IF Len(login) > 0 /\ login[1] = "@" THEN Tail(login) ELSE login)

\* The project the server has under Slug1 in workspace Login1 has id "p1";
\* "p0" is the id of a project this user does not see; a project created by
\* this attempt gets id "p2" and the slug the user chose, Slug2.
Slug1 == <<"a", "p", "p">>

Slug2 == <<"n", "e", "w">>

BadSlug == <<"A", "p", "p">>

Login1 == <<"w", "s">>

BadLogin == <<"w", " ", "s">>

\* What deploy.json may hold when the attempt reads it; None is null.
DeployConfigs ==
  [projectId            : {None, Some("p1"), Some("p0")},
   projectSlug          : {None, Some(<<>>), Some(Slug1), Some(BadSlug)},
   workspaceLogin       : {None, Some(<<>>), Some(Login1), Some(BadLogin)},
   continuousDeployment : {None, Some(TRUE), Some(FALSE)}]

\* GetProjectResponse of the project under Slug1, as the server has it now.
ExistingProject ==
  [id |-> "p1", slug |-> Slug1, latestCreatedDeployId |-> latestCreatedDeployId]

\* {create: false, workspace: project.owner, project}
ExistingTarget == [create |-> FALSE, workspace |-> [login |-> Login1], project |-> ExistingProject]

\* The title of the app in the config, and a title the user types.
ConfigTitle == <<"N", "e", "w">>

PromptedTitle == <<"T">>

\* {create: true, workspace, projectSlug, title, accessLevel} of promptDeployTarget
CreateTargetOf(projectSlug, title) ==
  [create |-> TRUE, workspace |-> [login |-> Login1], projectSlug |-> projectSlug, title |-> title]

CreateTarget == CreateTargetOf(Slug2, ConfigTitle)

\* A postProject after which the target is still to be created.
createdTarget_StillCreate(target) == target

\* deployTarget = {create: false, workspace: deployTarget.workspace, project}
\* for the project postProject answers.
createdTarget(target) ==
  [create    |-> FALSE,
   workspace |-> target.workspace,
   project   |-> [id |-> "p2", slug |-> target.projectSlug, latestCreatedDeployId |-> None]]

\* const deployConfig = await this.effects.getDeployConfig(...)
GetDeployConfig ==
  /\ pc = "getDeployConfig"
  /\ \E config \in DeployConfigs :
       /\ loadedConfig' = Some(config)
       /\ persisted' = Some(config)
  /\ pc' = "getUpdatedDeployConfig"
  /\ UNCHANGED <<deployOptions, now, pollExpiration, pollCount, deployTarget, deployConfig,
                 localRepo, deployId, deployInfo, buildFilePaths, instructions, task, posted,
                 firstError, sent, latestCreatedDeployId, result, err>>
  /\ UNCHANGED <<auth, answer, configWrites, link>>
  /\ UNCHANGED <<build, prompt>>

\* A getUpdatedDeployConfig that validates the login only.
invalidConfigError_LoginOnly(config) ==
  IF config.workspaceLogin \notin {None, Some(<<>>)} /\ ~matchesLogin(config.workspaceLogin[1])
    THEN CliError("Found invalid workspace login")
    ELSE NoError

\* The error getUpdatedDeployConfig throws for the config loaded, or NoError:
\* deployConfig.workspaceLogin && !deployConfig.workspaceLogin.match(...), and
\* the same for projectSlug (an empty string is falsy, and is not validated).
invalidConfigError(config) ==
  IF config.workspaceLogin \notin {None, Some(<<>>)} /\ ~matchesLogin(config.workspaceLogin[1])
    THEN CliError("Found invalid workspace login")
  ELSE IF config.projectSlug \notin {None, Some(<<>>)} /\ ~matchesSlug(config.projectSlug[1])
    THEN CliError("Found invalid projectSlug")
    ELSE NoError

\* A getUpdatedDeployConfig that searches for the project of every projectId.
needsBackfill_Always(config) == config.projectId # None

\* deployConfig.projectId && (!deployConfig.projectSlug || !deployConfig.workspaceLogin)
\* (an empty string is falsy)
needsBackfill(config) ==
  /\ config.projectId # None
  /\ config.projectSlug \in {None, Some(<<>>)} \/ config.workspaceLogin \in {None, Some(<<>>)}

\* The rest of getUpdatedDeployConfig: the two validations, then the search for
\* the project of a projectId without slug or login, which writes deploy.json
\* when it finds the project.
GetUpdatedDeployConfig ==
  /\ pc = "getUpdatedDeployConfig"
  /\ LET config == loadedConfig[1] IN
     IF invalidConfigError(config) # NoError
       THEN /\ Fail(invalidConfigError(config))
            /\ UNCHANGED <<loadedConfig, persisted, configWrites>>
     ELSE IF ~needsBackfill(config)
       THEN /\ pc' = "getDeployTarget"
            /\ UNCHANGED <<err, loadedConfig, persisted, configWrites>>
     ELSE \/ /\ \E h \in HttpStatuses : Fail(HttpError(h))
             /\ UNCHANGED <<loadedConfig, persisted, configWrites>>
          \/ /\ config.projectId = Some(ExistingProject.id)
             /\ loadedConfig' = Some([config EXCEPT !.projectSlug = Some(ExistingProject.slug),
                                                    !.workspaceLogin = Some(Login1)])
             /\ persisted' = loadedConfig'
             /\ configWrites' = configWrites + 1
             /\ pc' = "getDeployTarget"
             /\ UNCHANGED err
          \/ /\ pc' = "getDeployTarget"
             /\ UNCHANGED <<err, loadedConfig, persisted, configWrites>>
  /\ UNCHANGED <<deployOptions, now, pollExpiration, pollCount, deployTarget, deployConfig,
                 localRepo, deployId, deployInfo, buildFilePaths, instructions, task, posted,
                 firstError, sent, latestCreatedDeployId, result>>
  /\ UNCHANGED <<auth, answer, link>>
  /\ UNCHANGED <<build, prompt>>

\* deployConfig.workspaceLogin && deployConfig.projectSlug
namesProject(config) ==
  /\ config.workspaceLogin \notin {None, Some(<<>>)}
  /\ config.projectSlug \notin {None, Some(<<>>)}

\* A catch clause that rethrows every error of getProject.
swallowsGetProjectError_Never(error) == FALSE

\* if (!isHttpError(error) || error.statusCode !== 404) throw error: the 404
\* is swallowed, and deployTarget stays unset.
swallowsGetProjectError(error) == isHttpError(error) /\ error.detail[1] = "404"

\* getDeployTarget up to the target: getProject for a config that names the
\* project, and promptDeployTarget without one or after a 404.
GetDeployTarget ==
  /\ pc = "getDeployTarget"
  /\ sent' = [sent EXCEPT !.targets = @ + 1]
  /\ \/ /\ namesProject(loadedConfig[1])
        /\ \/ /\ \E h \in HttpStatuses :
                   ~swallowsGetProjectError(HttpError(h)) /\ Fail(HttpError(h))
              /\ UNCHANGED deployTarget
           \/ /\ deployTarget' = Some(ExistingTarget)
              /\ pc' = "checkDeployTarget"
              /\ UNCHANGED err
     \/ /\ \/ ~namesProject(loadedConfig[1])
           \/ \E h \in HttpStatuses : swallowsGetProjectError(HttpError(h))
        /\ UNCHANGED deployTarget
        /\ IF ~deployOptions.isTty
             THEN Fail(CliError("Deploy not configured."))
             ELSE \E workspaces \in 0 .. 2 :
                    IF workspaces = 0
                      THEN Fail(CliErrorWith("No Observable workspace found.",
                                             <<"print: false", "exitCode: 1">>))
                      ELSE /\ pc' = IF workspaces = 1 THEN "getWorkspaceProjects"
                                                      ELSE "selectWorkspace"
                           /\ UNCHANGED err
  /\ UNCHANGED <<deployOptions, now, pollExpiration, pollCount, deployConfig, localRepo, deployId,
                 deployInfo, buildFilePaths, instructions, task, posted, firstError,
                 latestCreatedDeployId, result>>
  /\ UNCHANGED <<auth, answer, loadedConfig, persisted, configWrites, link>>
  /\ UNCHANGED <<build, prompt>>

\* What a select or a text prompt may answer: a value, or the cancel symbol.
Selections == {"value", "cancel"}

\* "Which Observable workspace do you want to use?"
SelectWorkspace ==
  /\ pc = "selectWorkspace"
  /\ \E choice \in Selections :
       /\ answer' = Some(choice)
       /\ IF choice = "cancel"
            THEN Fail(UserCanceled("User canceled deploy."))
            ELSE pc' = "getWorkspaceProjects" /\ UNCHANGED err
  /\ UNCHANGED <<deployOptions, now, pollExpiration, pollCount, deployTarget, deployConfig,
                 localRepo, deployId, deployInfo, buildFilePaths, instructions, task, posted,
                 firstError, sent, latestCreatedDeployId, result>>
  /\ UNCHANGED <<auth, loadedConfig, persisted, configWrites, link, build, prompt>>

\* existingProjects = await api.getWorkspaceProjects(workspace.login): the
\* workspace has the project under Slug1, or none.
GetWorkspaceProjects ==
  /\ pc = "getWorkspaceProjects"
  /\ answer' = None
  /\ \/ \E e \in {CliError("Workspace not found")} \cup
                 {HttpError(h) : h \in HttpStatuses \ {"404"}} : Fail(e)
     \/ /\ \E existingProjects \in 0 .. 1 :
             pc' = IF existingProjects > 0 THEN "selectProject" ELSE "confirmCreate"
        /\ UNCHANGED err
  /\ UNCHANGED <<deployOptions, now, pollExpiration, pollCount, deployTarget, deployConfig,
                 localRepo, deployId, deployInfo, buildFilePaths, instructions, task, posted,
                 firstError, sent, latestCreatedDeployId, result>>
  /\ UNCHANGED <<auth, loadedConfig, persisted, configWrites, link, build, prompt>>

\* "Which app do you want to use?": the cancel symbol, "Create a new app", or
\* the project, with which promptDeployTarget returns.
SelectProject ==
  /\ pc = "selectProject"
  /\ \/ /\ answer' = Some("cancel")
        /\ Fail(UserCanceled("User canceled deploy."))
        /\ UNCHANGED deployTarget
     \/ /\ answer' = None
        /\ pc' = "askTitle"
        /\ UNCHANGED <<err, deployTarget>>
     \/ /\ answer' = None
        /\ deployTarget' = Some(ExistingTarget)
        /\ pc' = "checkDeployTarget"
        /\ UNCHANGED err
  /\ UNCHANGED <<deployOptions, now, pollExpiration, pollCount, deployConfig,
                 localRepo, deployId, deployInfo, buildFilePaths, instructions, task, posted,
                 firstError, sent, latestCreatedDeployId, result>>
  /\ UNCHANGED <<auth, loadedConfig, persisted, configWrites, link, build, prompt>>

\* "No apps found. Do you want to create a new app?"
\* if (effects.clack.isCancel(confirmChoice) || !confirmChoice) throw ...
ConfirmCreate ==
  /\ pc = "confirmCreate"
  /\ \E choice \in Choices :
       /\ answer' = Some(choice)
       /\ IF ~canceledOrDeclined(choice)
            THEN pc' = "askTitle" /\ UNCHANGED err
            ELSE Fail(UserCanceled("User canceled deploy."))
  /\ UNCHANGED <<deployOptions, now, pollExpiration, pollCount, deployTarget, deployConfig,
                 localRepo, deployId, deployInfo, buildFilePaths, instructions, task, posted,
                 firstError, sent, latestCreatedDeployId, result>>
  /\ UNCHANGED <<auth, loadedConfig, persisted, configWrites, link, build, prompt>>

UpperCase == <<"A", "B", "C", "D", "E", "F", "G", "H", "I", "J", "K", "L", "M", "N", "O", "P",
               "Q", "R", "S", "T", "U", "V", "W", "X", "Y", "Z">>

LowerCase == <<"a", "b", "c", "d", "e", "f", "g", "h", "i", "j", "k", "l", "m", "n", "o", "p",
               "q", "r", "s", "t", "u", "v", "w", "x", "y", "z">>

\* slugify of a title of one word: its letters in lower case.
slugify(title) ==
  [i \in DOMAIN title |->
     IF \E k \in DOMAIN UpperCase : UpperCase[k] = title[i]
       THEN LowerCase[CHOOSE k \in DOMAIN UpperCase : UpperCase[k] = title[i]]
       ELSE title[i]]

\* const defaultProjectSlug = config.title ? slugify(config.title) : ""
defaultProjectSlugOf(configTitle) ==
  IF configTitle = None \/ configTitle = Some(<<>>) THEN <<>> ELSE slugify(configTitle[1])

\* validate: (title) => (title ? undefined : "A title is required."): TRUE for a
\* title the prompt lets through.
validTitle(title) == title # <<>>

\* let title = config.title; if (title === undefined) { ... text prompt ... };
\* then defaultProjectSlug.
AskTitle ==
  /\ pc = "askTitle"
  /\ \E configTitle \in {None, Some(ConfigTitle)} :
       IF configTitle # None
         THEN /\ prompt' = [prompt EXCEPT !.title = configTitle,
                                          !.defaultProjectSlug = Some(defaultProjectSlugOf(configTitle))]
              /\ answer' = None
              /\ pc' = "askSlug"
              /\ UNCHANGED err
         ELSE \/ /\ answer' = Some("cancel")
                 /\ Fail(UserCanceled("User canceled deploy."))
                 /\ UNCHANGED prompt
              \/ \E titleChoice \in {t \in {<<>>, PromptedTitle} : validTitle(t)} :
                   /\ prompt' = [prompt EXCEPT !.title = Some(titleChoice),
                                               !.defaultProjectSlug = Some(defaultProjectSlugOf(configTitle))]
                   /\ answer' = None
                   /\ pc' = "askSlug"
                   /\ UNCHANGED err
  /\ UNCHANGED <<deployOptions, now, pollExpiration, pollCount, deployTarget, deployConfig,
                 localRepo, deployId, deployInfo, buildFilePaths, instructions, task, posted,
                 firstError, sent, latestCreatedDeployId, result>>
  /\ UNCHANGED <<auth, loadedConfig, persisted, configWrites, link, build>>

\* A validate that lets every slug through.
validSlugInput_Any(slug) == TRUE

\* validate: (slug) => !slug || slug.match(/^[a-z0-9-]+$/) ? undefined : "...":
\* TRUE for an input the prompt lets through.
validSlugInput(slug) == slug = <<>> \/ matchesSlug(slug)

\* What the text prompt answers for the input: the defaultValue for none.
textValue(input, defaultValue) == IF input = <<>> THEN defaultValue ELSE input

\* "What slug do you want to use?"
AskSlug ==
  /\ pc = "askSlug"
  /\ \/ /\ answer' = Some("cancel")
        /\ Fail(UserCanceled("User canceled deploy."))
        /\ UNCHANGED prompt
     \/ \E input \in {t \in {<<>>, Slug2, BadSlug} : validSlugInput(t)} :
          /\ prompt' = [prompt EXCEPT
                          !.projectSlug = Some(textValue(input, prompt.defaultProjectSlug[1]))]
          /\ answer' = None
          /\ pc' = "selectAccess"
          /\ UNCHANGED err
  /\ UNCHANGED <<deployOptions, now, pollExpiration, pollCount, deployTarget, deployConfig,
                 localRepo, deployId, deployInfo, buildFilePaths, instructions, task, posted,
                 firstError, sent, latestCreatedDeployId, result>>
  /\ UNCHANGED <<auth, loadedConfig, persisted, configWrites, link, build>>

\* "Who is allowed to access your app?", and the return of promptDeployTarget
\* with {create: true, workspace, projectSlug, title, accessLevel}.
SelectAccess ==
  /\ pc = "selectAccess"
  /\ \/ /\ answer' = Some("cancel")
        /\ Fail(UserCanceled("User canceled deploy."))
        /\ UNCHANGED <<deployTarget, prompt>>
     \/ /\ answer' = None
        /\ deployTarget' = Some(CreateTargetOf(prompt.projectSlug[1], prompt.title[1]))
        /\ prompt' = NoPrompt
        /\ pc' = "checkDeployTarget"
        /\ UNCHANGED err
  /\ UNCHANGED <<deployOptions, now, pollExpiration, pollCount, deployConfig,
                 localRepo, deployId, deployInfo, buildFilePaths, instructions, task, posted,
                 firstError, sent, latestCreatedDeployId, result>>
  /\ UNCHANGED <<auth, loadedConfig, persisted, configWrites, link, build>>

\* A comparison that takes every persisted projectId for the project's.
projectIdMismatch_Never(config, target) == FALSE

\* deployConfig.projectId && deployConfig.projectId !== deployTarget.project.id
projectIdMismatch(config, target) ==
  config.projectId # None /\ config.projectId[1] # target.project.id

\* A check that takes a deploy.json without projectId for one that names the
\* project.
hasProjectId_Always(config) == TRUE

\* } else if (deployConfig.projectId) {
hasProjectId(config) == config.projectId # None

\* if (!deployTarget.create) { ... }: what getDeployTarget does with an
\* existing project before it asks anything.
CheckDeployTarget ==
  /\ pc = "checkDeployTarget"
  /\ LET config == loadedConfig[1]
         target == deployTarget[1]
     IN IF target.create
          THEN pc' = "postProject" /\ UNCHANGED err
        ELSE IF projectIdMismatch(config, target)
          THEN IF deployOptions.isTty
                 THEN pc' = "confirmOverwrite" /\ UNCHANGED err
                 ELSE Fail(CliError("Cancelling deploy due to misconfiguration."))
        ELSE IF hasProjectId(config)
          THEN pc' = "getContinuousDeployment" /\ UNCHANGED err
        ELSE IF deployOptions.isTty
          THEN pc' = "confirmOverwrite" /\ UNCHANGED err
          ELSE Fail(CliError("Running non-interactively, cancelling due to conflict."))
  /\ UNCHANGED <<deployOptions, now, pollExpiration, pollCount, deployTarget, deployConfig,
                 localRepo, deployId, deployInfo, buildFilePaths, instructions, task, posted,
                 firstError, sent, latestCreatedDeployId, result>>
  /\ UNCHANGED <<auth, answer, loadedConfig, persisted, configWrites, link>>
  /\ UNCHANGED <<build, prompt>>

\* "Do you want to continue deploying?"
\* if (this.effects.clack.isCancel(choice) || !choice) throw ...
ConfirmOverwrite ==
  /\ pc = "confirmOverwrite"
  /\ \E choice \in Choices :
       /\ answer' = Some(choice)
       /\ IF ~canceledOrDeclined(choice)
            THEN pc' = "getContinuousDeployment" /\ UNCHANGED err
            ELSE Fail(UserCanceled("User canceled deploy"))
  /\ UNCHANGED <<deployOptions, now, pollExpiration, pollCount, deployTarget, deployConfig,
                 localRepo, deployId, deployInfo, buildFilePaths, instructions, task, posted,
                 firstError, sent, latestCreatedDeployId, result>>
  /\ UNCHANGED <<auth, loadedConfig, persisted, configWrites, link>>
  /\ UNCHANGED <<build, prompt>>

\* if (deployTarget.create) { ... postProject ... }: the target becomes the
\* project created, which has no deploy yet, or the attempt fails.  A request
\* without a slug is taken to be refused: what the server makes of it is not
\* in this repository.
PostProject ==
  /\ pc = "postProject"
  /\ sent' = [sent EXCEPT !.projects = @ + 1]
  /\ \/ /\ Fail(CliError("Error during deploy"))
        /\ UNCHANGED <<deployTarget, latestCreatedDeployId>>
     \/ /\ matchesSlug(deployTarget[1].projectSlug)
        /\ deployTarget' = Some(createdTarget(deployTarget[1]))
        /\ latestCreatedDeployId' = None
        /\ pc' = "getContinuousDeployment"
        /\ UNCHANGED err
  /\ UNCHANGED <<deployOptions, now, pollExpiration, pollCount, deployConfig, localRepo, deployId,
                 deployInfo, buildFilePaths, instructions, task, posted, firstError, result>>
  /\ UNCHANGED <<auth, answer, loadedConfig, persisted, configWrites, link>>
  /\ UNCHANGED <<build, prompt>>

\* if (continuousDeployment === null) { const enable = await confirm(...) ... }
asksContinuousDeployment(config) == config.continuousDeployment = None

\* let {continuousDeployment} = deployConfig, and the test for null.
GetContinuousDeployment ==
  /\ pc = "getContinuousDeployment"
  /\ pc' = IF asksContinuousDeployment(loadedConfig[1])
             THEN "confirmContinuousDeployment"
             ELSE "setDeployConfig"
  /\ UNCHANGED <<deployOptions, now, pollExpiration, pollCount, deployTarget, deployConfig,
                 localRepo, deployId, deployInfo, buildFilePaths, instructions, task, posted,
                 firstError, sent, latestCreatedDeployId, result, err>>
  /\ UNCHANGED <<auth, answer, loadedConfig, persisted, configWrites, link>>
  /\ UNCHANGED <<build, prompt>>

\* "Do you want to enable continuous deployment?"
\* if (isCancel(enable)) throw ...; continuousDeployment = enable
ConfirmContinuousDeployment ==
  /\ pc = "confirmContinuousDeployment"
  /\ \E choice \in Choices :
       /\ answer' = Some(choice)
       /\ IF choice = "cancel"
            THEN Fail(UserCanceled("User canceled deploy")) /\ UNCHANGED loadedConfig
            ELSE /\ loadedConfig' =
                      Some([loadedConfig[1] EXCEPT !.continuousDeployment = Some(choice = "yes")])
                 /\ pc' = "setDeployConfig"
                 /\ UNCHANGED err
  /\ UNCHANGED <<deployOptions, now, pollExpiration, pollCount, deployTarget, deployConfig,
                 localRepo, deployId, deployInfo, buildFilePaths, instructions, task, posted,
                 firstError, sent, latestCreatedDeployId, result>>
  /\ UNCHANGED <<auth, persisted, configWrites, link>>
  /\ UNCHANGED <<build, prompt>>

\* A config that keeps the projectId it was loaded with.
newDeployConfig_KeepId(config, target) ==
  [projectId            |-> IF config.projectId # None THEN config.projectId
                                                       ELSE Some(target.project.id),
   projectSlug          |-> Some(target.project.slug),
   workspaceLogin       |-> Some(target.workspace.login),
   continuousDeployment |-> config.continuousDeployment]

\* const newDeployConfig = {projectId: deployTarget.project.id, ...}
newDeployConfig(config, target) ==
  [projectId            |-> Some(target.project.id),
   projectSlug          |-> Some(target.project.slug),
   workspaceLogin       |-> Some(target.workspace.login),
   continuousDeployment |-> config.continuousDeployment]

\* await this.effects.setDeployConfig(..., newDeployConfig, ...) and the return
\* of getDeployTarget to startNewDeploy.
SetDeployConfig ==
  /\ pc = "setDeployConfig"
  /\ persisted' = Some(newDeployConfig(loadedConfig[1], deployTarget[1]))
  /\ configWrites' = configWrites + 1
  /\ deployConfig' = Some(newDeployConfig(loadedConfig[1], deployTarget[1]))
  /\ loadedConfig' = None
  /\ answer' = None
  /\ pc' = "startNewDeploy"
  /\ UNCHANGED <<deployOptions, now, pollExpiration, pollCount, deployTarget, localRepo, deployId,
                 deployInfo, buildFilePaths, instructions, task, posted, firstError, sent,
                 latestCreatedDeployId, result, err>>
  /\ UNCHANGED <<auth, link>>
  /\ UNCHANGED <<build, prompt>>

\* A startNewDeploy that builds locally whatever the config says.
buildsInCloud_Never(config) == FALSE

\* if (deployConfig.continuousDeployment)
buildsInCloud(config) == config.continuousDeployment = Some(TRUE)

\* An else branch that creates the deploy before it looks for build files.
firstLocalStep_CreateDeploy == "createNewDeploy"

\* The else branch begins with const buildFilePaths = await this.getBuildFilePaths()
firstLocalStep == "getBuildFilePaths"

\* if (deployConfig.continuousDeployment) ... else ...
StartNewDeploy ==
  /\ pc = "startNewDeploy"
  /\ pc' = IF buildsInCloud(deployConfig[1])
             THEN "validateGitHubLink"
             ELSE firstLocalStep
  /\ configWrites' = 0
  /\ UNCHANGED <<deployOptions, now, pollExpiration, pollCount, deployTarget, deployConfig, localRepo,
                 deployId, deployInfo, buildFilePaths, instructions, task, posted, firstError,
                 sent, latestCreatedDeployId, result, err>>
  /\ UNCHANGED <<auth, answer, loadedConfig, persisted, link>>
  /\ UNCHANGED <<build, prompt>>

\* deployOptions.force.  It is read by getBuildFilePaths only, and is drawn
\* where that function reads it first.
Forces == {None, Some("build"), Some("deploy")}

\* A catch clause that asks to build whatever --deploy says.
missingBuildStep_IgnoresForce(force, isTty) ==
  IF isTty THEN "confirmBuildNow" ELSE "build"

\* The catch clause of getBuildFilePaths for "No build files found": it throws,
\* asks whether to build now, or goes on with doBuild set.
missingBuildStep(force, isTty) ==
  IF force = Some("deploy") THEN "throw"
  ELSE IF force = None /\ isTty THEN "confirmBuildNow"
  ELSE "build"

\* A doBuild that is set whenever --deploy was not given.
doBuildOf_UnlessDeploy(force) == force # Some("deploy")

\* let doBuild = this.deployOptions.force === "build"
doBuildOf(force) == force = Some("build")

\* if (!doBuild && !this.deployOptions.force && this.effects.isTty)
asksRebuild(doBuild, force, isTty) == ~doBuild /\ force = None /\ isTty

\* Where getBuildFilePaths goes with the build files found.
existingBuildStep(force, isTty) ==
  IF asksRebuild(doBuildOf(force), force, isTty) THEN "checkBuildAge"
  ELSE IF doBuildOf(force) THEN "build"
  ELSE "returnBuildFilePaths"

\* getBuildFilePaths up to its first prompt, the build or its return:
\* findBuildFiles finds the build files, finds none ("No build files found at
\* ..."), or fails otherwise.
GetBuildFilePaths ==
  /\ pc = "getBuildFilePaths"
  /\ \E force \in Forces :
       \/ /\ Fail(FsError)
          /\ build' = [build EXCEPT !.force = Some(force)]
       \/ \E found \in BOOLEAN :
            /\ build' = [build EXCEPT !.force = Some(force), !.found = Some(found)]
            /\ LET step == IF found THEN existingBuildStep(force, deployOptions.isTty)
                                    ELSE missingBuildStep(force, deployOptions.isTty)
               IN IF step = "throw"
                    THEN Fail(CliError("No build files found."))
                    ELSE pc' = step /\ UNCHANGED err
  /\ UNCHANGED <<deployOptions, now, pollExpiration, pollCount, deployTarget, deployConfig, localRepo,
                 deployId, deployInfo, buildFilePaths, instructions, task, posted, firstError,
                 sent, latestCreatedDeployId, result>>
  /\ UNCHANGED <<auth, answer, loadedConfig, persisted, configWrites, link, prompt>>

\* "No build files found. Do you want to build the app now?"
\* if (this.effects.clack.isCancel(choice) || !choice) throw ...; doBuild = true
ConfirmBuildNow ==
  /\ pc = "confirmBuildNow"
  /\ \E choice \in Choices :
       /\ answer' = Some(choice)
       /\ IF ~canceledOrDeclined(choice)
            THEN pc' = "build" /\ UNCHANGED err
            ELSE Fail(UserCanceled("User canceled deploy"))
  /\ UNCHANGED <<deployOptions, now, pollExpiration, pollCount, deployTarget, deployConfig, localRepo,
                 deployId, deployInfo, buildFilePaths, instructions, task, posted, firstError,
                 sent, latestCreatedDeployId, result>>
  /\ UNCHANGED <<auth, loadedConfig, persisted, configWrites, link, build, prompt>>

BUILD_AGE_WARNING_MS == 1000 * 60 * 5

\* Modification times about the warning age before t.
Mtimes(t) == {t - BUILD_AGE_WARNING_MS - 1, t - BUILD_AGE_WARNING_MS, t - BUILD_AGE_WARNING_MS + 1}

\* findLeastRecentBuildMtimeMs over the mtimes of the build files (there is one
\* at least).
findLeastRecentBuildMtimeMs(mtimes) == CHOOSE m \in mtimes : \A x \in mtimes : m <= x

\* findMostRecentSourceMtimeMs over the mtimes of the files of the source root
\* and of the cache directory, None without one; None is its -Infinity.
findMostRecentSourceMtimeMs(mtimes, cache) ==
  LET all == mtimes \cup (IF cache = None THEN {} ELSE {cache[1]})
  IN IF all = {} THEN None ELSE Some(CHOOSE m \in all : \A x \in all : m >= x)

\* mostRecentSourceMtimeMs > leastRecentBuildMtimeMs
sourceIsNewer(most, least) == most # None /\ most[1] > least

\* An initialValue that looks at the age of the build only.
rebuildInitialValue_AgeOnly(t, least, most) == t - least > BUILD_AGE_WARNING_MS

\* let initialValue = buildAge > BUILD_AGE_WARNING_MS;
\* if (mostRecentSourceMtimeMs > leastRecentBuildMtimeMs) initialValue = true
rebuildInitialValue(t, least, most) ==
  (t - least > BUILD_AGE_WARNING_MS) \/ sourceIsNewer(most, least)

\* The two modification times, the age of the build and the initialValue of the
\* prompt.  stat may fail.
CheckBuildAge ==
  /\ pc = "checkBuildAge"
  /\ \/ Fail(FsError) /\ UNCHANGED build
     \/ /\ \E buildMtimes \in SUBSET Mtimes(now) \ {{}}, sourceMtimes \in SUBSET Mtimes(now),
              cache \in {None} \cup {Some(m) : m \in Mtimes(now)} :
             LET least == findLeastRecentBuildMtimeMs(buildMtimes)
                 most  == findMostRecentSourceMtimeMs(sourceMtimes, cache)
             IN build' = [build EXCEPT !.least = Some(least), !.most = Some(most),
                                       !.initialValue = Some(rebuildInitialValue(now, least, most))]
        /\ pc' = "confirmRebuild"
        /\ UNCHANGED err
  /\ UNCHANGED <<deployOptions, now, pollExpiration, pollCount, deployTarget, deployConfig, localRepo,
                 deployId, deployInfo, buildFilePaths, instructions, task, posted, firstError,
                 sent, latestCreatedDeployId, result>>
  /\ UNCHANGED <<auth, answer, loadedConfig, persisted, configWrites, link, prompt>>

\* "Would you like to build again before deploying?"
\* if (this.effects.clack.isCancel(choice)) throw ...; doBuild = !!choice
ConfirmRebuild ==
  /\ pc = "confirmRebuild"
  /\ \E choice \in Choices :
       /\ answer' = Some(choice)
       /\ IF choice = "cancel"
            THEN Fail(UserCanceled("User canceled deploy"))
            ELSE /\ pc' = IF choice = "yes" THEN "build" ELSE "returnBuildFilePaths"
                 /\ UNCHANGED err
  /\ UNCHANGED <<deployOptions, now, pollExpiration, pollCount, deployTarget, deployConfig, localRepo,
                 deployId, deployInfo, buildFilePaths, instructions, task, posted, firstError,
                 sent, latestCreatedDeployId, result>>
  /\ UNCHANGED <<auth, loadedConfig, persisted, configWrites, link, build, prompt>>

\* if (doBuild) { await this.effects.build(...); buildFilePaths = await
\* this.findBuildFiles() }: the build may fail, and may leave no build files.
Build ==
  /\ pc = "build"
  /\ sent' = [sent EXCEPT !.builds = @ + 1]
  /\ \/ \E e \in {FsError, CliError("No build files found at")} : Fail(e)
     \/ pc' = "returnBuildFilePaths" /\ UNCHANGED err
  /\ UNCHANGED <<deployOptions, now, pollExpiration, pollCount, deployTarget, deployConfig, localRepo,
                 deployId, deployInfo, buildFilePaths, instructions, task, posted, firstError,
                 latestCreatedDeployId, result>>
  /\ UNCHANGED <<auth, answer, loadedConfig, persisted, configWrites, link, build, prompt>>

\* Where the attempt goes with the build file paths.
afterGetBuildFilePaths == IF resumeMode THEN "uploadFiles" ELSE "createNewDeploy"

\* return buildFilePaths: the paths findBuildFiles listed last.
ReturnBuildFilePaths ==
  /\ pc = "returnBuildFilePaths"
  /\ \E n \in 1 .. MaxFiles : buildFilePaths' = n
  /\ build' = NoBuild
  /\ answer' = None
  /\ pc' = afterGetBuildFilePaths
  /\ UNCHANGED <<deployOptions, now, pollExpiration, pollCount, deployTarget, deployConfig, localRepo,
                 deployId, deployInfo, instructions, task, posted, firstError, sent,
                 latestCreatedDeployId, result, err>>
  /\ UNCHANGED <<auth, loadedConfig, persisted, configWrites, link, prompt>>

\* What createNewDeploy throws when postDeploy fails with an HTTP error.
createNewDeployCatch(error) ==
  IF isHttpError(error) /\ error.detail[1] = "404"
    THEN CliErrorWith("App not found.", "404")
    ELSE IF isHttpError(error) /\ error.detail[1] = "403"
      THEN CliErrorWith("You don't have permission to deploy", "403")
      ELSE error

\* A createNewDeploy that hands over the id of the first deploy, whichever
\* deploy postDeploy created.
createNewDeployReturns_First(id) == Some(1)

\* return deployId: the id postDeploy answered.
createNewDeployReturns(id) == Some(id)

\* createNewDeploy: the deploy message, asked for at a terminal when the
\* options have none, then POST /cli/project/:id/deploy, which creates the
\* deploy on the server.
CreateNewDeploy ==
  /\ pc = "createNewDeploy"
  /\ \/ /\ deployTarget[1].create
        /\ Fail([kind |-> "Error", msg |-> "Incorrect deployTarget state", detail |-> None])
        /\ UNCHANGED <<sent, deployId, latestCreatedDeployId, answer>>
     \/ /\ ~deployTarget[1].create
        /\ deployOptions.isTty
        /\ answer' = Some("cancel")
        /\ Fail(UserCanceled("User canceled deploy"))
        /\ UNCHANGED <<sent, deployId, latestCreatedDeployId>>
     \/ /\ ~deployTarget[1].create
        /\ UNCHANGED answer
        /\ sent' = [sent EXCEPT !.deploys = @ + 1,
                                !.deployProject = Some(deployTarget[1].project.id)]
        /\ \/ /\ \E h \in HttpStatuses : Fail(createNewDeployCatch(HttpError(h)))
              /\ UNCHANGED <<deployId, latestCreatedDeployId>>
           \/ /\ NextDeployId \in DeployIds
              /\ latestCreatedDeployId' = Some(NextDeployId)
              /\ deployId' = createNewDeployReturns(NextDeployId)
              /\ pc' = "uploadFiles"
              /\ UNCHANGED err
  /\ UNCHANGED <<deployOptions, now, pollExpiration, pollCount, deployTarget, deployConfig, localRepo,
                 deployInfo, buildFilePaths, instructions, task, posted, firstError, result>>
  /\ UNCHANGED <<auth, loadedConfig, persisted, configWrites, link>>
  /\ UNCHANGED <<build, prompt>>

(* ----------------------------- uploadFiles ---------------------------- *)

\* The build files are paths 1 .. buildFilePaths.
BuildFiles == 1 .. buildFilePaths

\* What the server may answer to the manifest of the build files: a status for
\* every file of the manifest, and the status of the whole.
ManifestResponses ==
  {[status |-> st,
    files  |-> [p \in Paths |-> IF p \in BuildFiles THEN f[p] ELSE "none"]] :
      st \in {"ok", "error"}, f \in [BuildFiles -> InstructionStatuses]}

\* fileErrors: the files the server marked "error".
fileErrors(response) == {p \in DOMAIN response.files : response.files[p] = "error"}

\* A check of the overall status only: files marked "error" go unnoticed.
manifestRejected_StatusOnly(response) == response.status = "error"

\* if (instructions.status === "error" || fileErrors.length) throw ...
manifestRejected(response) ==
  response.status = "error" \/ fileErrors(response) # {}

\* A filter that drops the rejected files only, and so uploads the skipped ones.
filesToUpload_NotError(response) ==
  {p \in DOMAIN response.files : response.files[p] \in {"upload", "skip"}}

\* instructions.files.filter((instruction) => instruction.status === "upload")
filesToUpload(response) == {p \in DOMAIN response.files : response.files[p] = "upload"}

\* The threshold of filesToUpload.length up to which uploads are not rate limited.
RATE_LIMIT_THRESHOLD == 300

\* A threshold test that is off by one: 300 uploads are rate limited too.
waitsForRateLimit_Below(response) == ~(Count(filesToUpload(response)) < RATE_LIMIT_THRESHOLD)

\* const waitForRateLimit = filesToUpload.length <= 300 ? async () => {} : () => rateLimiter.wait()
\* TRUE when waitForRateLimit is rateLimiter.wait.
waitsForRateLimit(response) == ~(Count(filesToUpload(response)) <= RATE_LIMIT_THRESHOLD)

\* The option left out: the runner falls back on its default.
uploadRunnerOptions_Default == [maxConcurrency |-> None]

\* The options uploadFiles gives runAllWithConcurrencyLimit for the uploads.
uploadRunnerOptions == [maxConcurrency |-> deployOptions.maxConcurrency]

\* The first runAllWithConcurrencyLimit of uploadFiles: stat, read and hash every
\* build file.  Reading a file may fail.
HashLocalFiles ==
  /\ pc = "uploadFiles"
  /\ \/ Fail(FsError)
     \/ pc' = "postDeployManifest" /\ UNCHANGED err
  /\ UNCHANGED <<deployOptions, now, pollExpiration, pollCount, deployTarget, deployConfig, localRepo,
                 deployId, deployInfo, buildFilePaths, instructions, task, posted, firstError,
                 sent, latestCreatedDeployId, result>>
  /\ UNCHANGED <<auth, answer, loadedConfig, persisted, configWrites, link>>
  /\ UNCHANGED <<build, prompt>>

\* postDeployManifest and what uploadFiles does with the answer, up to the call
\* of runAllWithConcurrencyLimit for the uploads.
PostDeployManifest ==
  /\ pc = "postDeployManifest"
  /\ sent' = [sent EXCEPT !.manifests = @ + 1, !.ids = @ \cup {deployId[1]}]
  /\ \/ /\ \E h \in HttpStatuses : Fail(HttpError(h))
        /\ UNCHANGED <<instructions, task>>
     \/ \E response \in ManifestResponses :
          /\ instructions' = response
          /\ IF manifestRejected(response)
               THEN Fail(CliError("Server rejected deploy manifest")) /\ UNCHANGED task
               ELSE /\ task' = [p \in Paths |->
                                  IF p \in filesToUpload(response) THEN "queued" ELSE "none"]
                    /\ pc' = "runAllWithConcurrencyLimit"
                    /\ UNCHANGED err
  /\ UNCHANGED <<deployOptions, now, pollExpiration, pollCount, deployTarget, deployConfig,
                 localRepo, deployId, deployInfo, buildFilePaths, posted, firstError,
                 latestCreatedDeployId, result>>
  /\ UNCHANGED <<auth, answer, loadedConfig, persisted, configWrites, link>>
  /\ UNCHANGED <<build, prompt>>

(* ---------------------- runAllWithConcurrencyLimit -------------------- *)

\* The runner's own bound on the tasks in flight, when the caller gives none.
DefaultMaxConcurrency == 3

\* The most tasks the runner lets be in flight.
RunnerLimit(options) ==
  IF options.maxConcurrency = None THEN DefaultMaxConcurrency ELSE options.maxConcurrency[1]

Queued == {p \in DOMAIN task : task[p] = "queued"}

\* The tasks the runner has started and that have not settled: they await
\* waitForRateLimit() ("started", or "rateLimited" at the gate of the
\* RateLimiter) or their POST request ("inflight").
InFlight == {p \in DOMAIN task : task[p] \in {"started", "rateLimited", "inflight"}}

\* The runner may start its next task: one is left, and fewer than the limit
\* are in flight.
RunnerMayStart(limit) == Queued # {} /\ Count(InFlight) < limit

\* A runner that rejects on the first failure, with uploads still in flight.
RunnerSettled_FailFast == firstError # None \/ (InFlight = {} /\ Queued = {})

\* The runner is through: nothing is in flight, and nothing is left to start
\* or a task has failed.
RunnerSettled == InFlight = {} /\ (Queued = {} \/ firstError # None)

\* The task the runner starts next: the tasks start in the order of the list.
NextTask == CHOOSE p \in Queued : \A q \in Queued : p <= q

\* The runner starts the next upload task, which awaits waitForRateLimit(): the
\* no-op, or the wait of the RateLimiter.  A task that failed does not keep the
\* others from starting.
StartUpload ==
  /\ pc = "runAllWithConcurrencyLimit"
  /\ RunnerMayStart(RunnerLimit(uploadRunnerOptions))
  /\ task' = [task EXCEPT ![NextTask] =
                 IF waitsForRateLimit(instructions) THEN "rateLimited" ELSE "started"]
  /\ UNCHANGED <<pc, deployOptions, now, pollExpiration, pollCount, deployTarget,
                 deployConfig, localRepo, deployId, deployInfo, buildFilePaths, instructions,
                 posted, firstError, sent, latestCreatedDeployId, result, err>>
  /\ UNCHANGED <<auth, answer, loadedConfig, persisted, configWrites, link>>
  /\ UNCHANGED <<build, prompt>>

\* waitForRateLimit() has returned (the RateLimiter let the task through, when
\* it is used): the task sends POST /cli/deploy/:id/file for its path.
PostDeployFile ==
  /\ pc = "runAllWithConcurrencyLimit"
  /\ \E p \in DOMAIN task :
       /\ task[p] \in {"started", "rateLimited"}
       /\ task' = [task EXCEPT ![p] = "inflight"]
       /\ posted' = [posted EXCEPT ![p] = @ + 1]
  /\ sent' = [sent EXCEPT !.filePosted = TRUE, !.ids = @ \cup {deployId[1]}]
  /\ UNCHANGED <<pc, deployOptions, now, pollExpiration, pollCount, deployTarget,
                 deployConfig, localRepo, deployId, deployInfo, buildFilePaths, instructions,
                 firstError, latestCreatedDeployId, result, err>>
  /\ UNCHANGED <<auth, answer, loadedConfig, persisted, configWrites, link>>
  /\ UNCHANGED <<build, prompt>>

\* A POST /cli/deploy/:id/file request returns, and its task is done.
PostDeployFileReturns ==
  /\ pc = "runAllWithConcurrencyLimit"
  /\ \E p \in {q \in DOMAIN task : task[q] = "inflight"} :
       task' = [task EXCEPT ![p] = "done"]
  /\ UNCHANGED <<pc, deployOptions, now, pollExpiration, pollCount, deployTarget,
                 deployConfig, localRepo, deployId, deployInfo, buildFilePaths, instructions,
                 posted, firstError, sent, latestCreatedDeployId, result, err>>
  /\ UNCHANGED <<auth, answer, loadedConfig, persisted, configWrites, link>>
  /\ UNCHANGED <<build, prompt>>

\* A POST /cli/deploy/:id/file request fails, and its task with it.
PostDeployFileFails ==
  /\ pc = "runAllWithConcurrencyLimit"
  /\ \E p \in {q \in DOMAIN task : task[q] = "inflight"} :
       /\ task' = [task EXCEPT ![p] = "failed"]
       /\ \E h \in HttpStatuses :
            firstError' = IF firstError = None THEN Some(HttpError(h)) ELSE firstError
  /\ UNCHANGED <<pc, deployOptions, now, pollExpiration, pollCount, deployTarget,
                 deployConfig, localRepo, deployId, deployInfo, buildFilePaths, instructions,
                 posted, sent, latestCreatedDeployId, result, err>>
  /\ UNCHANGED <<auth, answer, loadedConfig, persisted, configWrites, link>>
  /\ UNCHANGED <<build, prompt>>

\* The completion poll started before the deploy is marked uploaded.
afterUploadFiles_PollFirst == "pollForProcessingCompletion"

\* Where the attempt goes when uploadFiles returned: markDeployUploaded, and
\* only then pollForProcessingCompletion.
afterUploadFiles == "markDeployUploaded"

\* The promise of the runner left floating: uploadFiles goes on at once.
uploadsAwaited_Floating == TRUE

\* await runAllWithConcurrencyLimit(filesToUpload, ...): uploadFiles goes on
\* when the promise of the runner is settled.
uploadsAwaited == RunnerSettled

\* The runner returns, or throws the first error of a task, and uploadFiles with
\* it.  When uploadFiles returns, its locals and the build file paths are not
\* read again: they are dropped, but for the tasks that did not complete.
UploadFilesReturns ==
  /\ pc = "runAllWithConcurrencyLimit"
  /\ uploadsAwaited
  /\ IF firstError = None
       THEN /\ pc' = afterUploadFiles
            /\ buildFilePaths' = 0
            /\ instructions' = [status |-> "none",
                                 files |-> [p \in DOMAIN instructions.files |-> "none"]]
            /\ task' = [p \in DOMAIN task |-> IF task[p] = "done" THEN "none" ELSE task[p]]
            /\ posted' = [p \in DOMAIN posted |-> 0]
            /\ UNCHANGED err
       ELSE /\ Fail(firstError[1])
            /\ UNCHANGED <<buildFilePaths, instructions, task, posted>>
  /\ UNCHANGED <<deployOptions, now, pollExpiration, pollCount, deployTarget, deployConfig,
                 localRepo, deployId, deployInfo, firstError, sent,
                 latestCreatedDeployId, result>>
  /\ UNCHANGED <<auth, answer, loadedConfig, persisted, configWrites, link>>
  /\ UNCHANGED <<build, prompt>>

(* -------------------------- markDeployUploaded ------------------------ *)

\* How readCacheFile and JSON.parse of _build.json may turn out.
ManifestReads == {"found", "ENOENT", "read error", "parse error"}

\* buildManifest after the try statement: the parsed manifest, or the null it
\* was initialised with.
buildManifestOf(read) == IF read = "found" THEN "manifest" ELSE "null"

\* A catch clause that rethrows what is not ENOENT.
manifestReadError_Rethrown(read) ==
  IF read \in {"read error", "parse error"} THEN FsError ELSE NoError

\* What the catch clause of markDeployUploaded throws: nothing, it records
\* "missing" or logs a warning.
manifestReadError(read) == NoError

\* markDeployUploaded reads the cached build manifest (found, missing or
\* unreadable, which decides the payload only) and sends
\* POST /cli/deploy/:id/uploaded.
MarkDeployUploaded ==
  /\ pc = "markDeployUploaded"
  /\ \E read \in ManifestReads :
       IF manifestReadError(read) # NoError
         THEN Fail(manifestReadError(read)) /\ UNCHANGED sent
         ELSE /\ sent' = [sent EXCEPT !.uploaded = @ + 1, !.ids = @ \cup {deployId[1]},
                                      !.buildManifestRead = Some(read),
                                      !.buildManifest = Some(buildManifestOf(read))]
              /\ pc' = "postDeployUploaded"
              /\ UNCHANGED err
  /\ UNCHANGED <<deployOptions, now, pollExpiration, pollCount, deployTarget, deployConfig, localRepo,
                 deployId, deployInfo, buildFilePaths, instructions, task, posted, firstError,
                 latestCreatedDeployId, result>>
  /\ UNCHANGED <<auth, answer, loadedConfig, persisted, configWrites, link>>
  /\ UNCHANGED <<build, prompt>>

\* The request returns, and pollForProcessingCompletion is entered: it fixes
\* pollExpiration.  Or the request fails.
PostDeployUploadedReturns ==
  /\ pc = "postDeployUploaded"
  /\ \/ /\ \E h \in HttpStatuses : Fail(HttpError(h))
        /\ sent' = [sent EXCEPT !.buildManifestRead = None, !.buildManifest = None]
        /\ UNCHANGED <<pollExpiration, pollCount>>
     \/ /\ sent' = [sent EXCEPT !.uploadedDone = TRUE,
                                !.buildManifestRead = None, !.buildManifest = None]
        /\ pollExpiration' = PollExpirationFrom(now)
        /\ pollCount' = 0
        /\ pc' = "pollForProcessingCompletion"
        /\ UNCHANGED err
  /\ UNCHANGED <<deployOptions, now, deployTarget, deployConfig, localRepo,
                 deployId, deployInfo, buildFilePaths, instructions, task, posted, firstError,
                 latestCreatedDeployId, result>>
  /\ UNCHANGED <<auth, answer, loadedConfig, persisted, configWrites, link>>
  /\ UNCHANGED <<build, prompt>>

(* --------------------- pollForProcessingCompletion -------------------- *)

\* A timeout error that does not name the status.
ProcessingTimeoutError_NoStatus(info) == CliError("Deploy failed to process on server")

\* The error of the expired deadline: it names deployInfo?.status.
ProcessingTimeoutError(info) ==
  CliErrorWith("Deploy failed to process on server: status = ",
               IF info = None THEN "undefined" ELSE info[1])

\* A switch without its default case: an unknown status is polled again.
statusCase_NoDefault(status) ==
  CASE status = "uploaded" -> "break pollLoop"
    [] status = "failed" -> "throw failed"
    [] status = "canceled" -> "throw canceled"
    [] OTHER -> "break"

\* The switch on deployInfo.status: go on polling, leave the loop, or throw.
statusCase(status) ==
  CASE status \in {"created", "pending"} -> "break"
    [] status = "uploaded" -> "break pollLoop"
    [] status = "failed" -> "throw failed"
    [] status = "canceled" -> "throw canceled"
    [] OTHER -> "throw unknown"

statusError(status) ==
  CASE statusCase(status) = "throw failed" -> CliError("Deploy failed to process on server")
    [] statusCase(status) = "throw canceled" -> CliError("Deploy canceled")
    [] OTHER -> CliErrorWith("Unknown deploy status", status)

\* A pollForProcessingCompletion that leaves pollLoop and hands over nothing.
pollForProcessingCompletionReturns_Nothing(id, info) == None

\* return deployInfo: the last answer of GET /cli/deploy/:id, for the deploy
\* asked for.
pollForProcessingCompletionReturns(id, info) == Some([id |-> id, status |-> info[1]])

\* One turn of pollLoop up to the sleep: the deadline, then GET /cli/deploy/:id
\* and the switch on the status.
PollForProcessingCompletion ==
  /\ pc = "pollForProcessingCompletion"
  /\ IF PollExpired(now, pollExpiration)
       THEN /\ Fail(ProcessingTimeoutError(deployInfo))
            /\ UNCHANGED <<now, pollCount, deployInfo, sent, result>>
       ELSE /\ pollCount' = pollCount + 1
            /\ sent' = [sent EXCEPT !.polled = TRUE, !.ids = @ \cup {deployId[1]}]
            /\ UNCHANGED now
            /\ \/ /\ \E h \in HttpStatuses : Fail(HttpError(h))
                  /\ UNCHANGED <<deployInfo, result>>
               \/ \E status \in Statuses :
                    /\ deployInfo' = Some(status)
                    /\ CASE statusCase(status) = "break" ->
                              pc' = "pollSleep" /\ UNCHANGED <<err, result>>
                         [] statusCase(status) = "break pollLoop" ->
                              /\ pc' = "done"
                              /\ result' = pollForProcessingCompletionReturns(deployId[1], deployInfo')
                              /\ UNCHANGED err
                         [] OTHER -> Fail(statusError(status)) /\ UNCHANGED result
  /\ UNCHANGED <<deployOptions, pollExpiration, deployTarget, deployConfig, localRepo, deployId,
                 buildFilePaths, instructions, task, posted, firstError, latestCreatedDeployId>>
  /\ UNCHANGED <<auth, answer, loadedConfig, persisted, configWrites, link>>
  /\ UNCHANGED <<build, prompt>>

\* await new Promise((resolve) => setTimeout(resolve, pollInterval))
PollSleep ==
  /\ pc = "pollSleep"
  /\ \E d \in Delays : now' = now + pollInterval + d
  /\ pc' = "pollForProcessingCompletion"
  /\ UNCHANGED <<deployOptions, pollExpiration, pollCount, deployTarget, deployConfig, localRepo,
                 deployId, deployInfo, buildFilePaths, instructions, task, posted, firstError,
                 sent, latestCreatedDeployId, result, err>>
  /\ UNCHANGED <<auth, answer, loadedConfig, persisted, configWrites, link>>
  /\ UNCHANGED <<build, prompt>>

(* -------------------------- validateGitHubLink ------------------------ *)

Branches == {"main", "feature-x"}

\* provider_id of a GitHub repository.
ProviderIds == {"r1", "r2"}

\* What getGitHubRepository may answer: null, or a repository.
Repositories == {None} \cup {Some([provider_id |-> r]) : r \in ProviderIds}

\* project.source as the server records it: null, or the linked repository
\* and branch.
Sources == {None} \cup {Some([provider_id |-> r, branch |-> b]) : r \in ProviderIds, b \in Branches}

\* stdout of `git rev-parse --abbrev-ref HEAD` on branch b: the name and a
\* newline.  validateGitHubLink takes it as it is.
revParseStdout(b) == b \o "\n"

\* The error validateGitHubLink throws for a project with a source link, or
\* NoError: the repository, the branch, then access to the linked repository.
configuredSourceError(source, repo, branch, remoteAuthedRepo) ==
  IF repo # None /\ source.provider_id # repo[1].provider_id
    THEN CliError("Configured repository does not match local repository")
    ELSE IF repo # None /\ source.branch # branch
      THEN CliError("Configured branch does not match local branch")
      ELSE IF remoteAuthedRepo = None
        THEN CliError("Cannot access configured repository")
        ELSE NoError

\* A line of `git remote -v`: the start of its URL and the path after it.
RemoteUrls ==
  [host : {"https://github.com/", "git@github.com:", "https://gitlab.com/"},
   path : {<<"o">>, <<"o", "r">>}]

\* What `git remote -v` may print.
RemoteLists ==
  {<<>>} \cup {<<u>> : u \in RemoteUrls}
         \cup {<<[host |-> "https://gitlab.com/", path |-> <<"o", "r">>],
                 [host |-> "git@github.com:", path |-> <<"o", "r">>]>>}

\* The map callback of getGitHubRemote: owner and repository name of an HTTPS
\* or SSH GitHub URL (a missing name is empty here), None for another URL.
parseRemote(url) ==
  IF url.host \in {"https://github.com/", "git@github.com:"}
    THEN Some([ownerName |-> url.path[1],
               repoName  |-> IF Len(url.path) > 1 THEN url.path[2] ELSE ""])
    ELSE None

\* A getGitHubRemote that takes a remote on any host.
getGitHubRemote_AnyHost(remotes) ==
  LET found == {i \in DOMAIN remotes : Len(remotes[i].path) > 1}
  IN IF found = {}
       THEN None
       ELSE LET first == CHOOSE i \in found : \A j \in found : i <= j
            IN Some([ownerName |-> remotes[first].path[1], repoName |-> remotes[first].path[2]])

\* getGitHubRemote: the first remote with an owner and a repository name; None
\* where it throws "No GitHub remote found."
getGitHubRemote(remotes) ==
  LET found == {i \in DOMAIN remotes :
                  /\ parseRemote(remotes[i]) # None
                  /\ parseRemote(remotes[i])[1].ownerName # ""
                  /\ parseRemote(remotes[i])[1].repoName # ""}
  IN IF found = {}
       THEN None
       ELSE parseRemote(remotes[CHOOSE i \in found : \A j \in found : i <= j])

Links ==
  [build_environment_id : BOOLEAN,
   source               : Sources,
   isGit                : {None, Some(TRUE), Some(FALSE)},
   remotes              : {None} \cup {Some(r) : r \in RemoteLists},
   head                 : {None} \cup {Some(b) : b \in Branches},
   remoteAuthedRepo     : {None} \cup {Some(r) : r \in Repositories}]

\* validateGitHubLink reads in the order of its statements and nothing after
\* the statement that throws: l and repo, the answer of the first
\* getGitHubRepository, are what one run of it has read.  It asks for the
\* linked repository once the local one has passed the two comparisons.
readInOrder(l, repo) ==
  /\ (l.isGit # None) <=> l.build_environment_id
  /\ (l.remotes # None) <=> (l.isGit = Some(TRUE))
  /\ (l.head # None) <=> (l.remotes # None /\ getGitHubRemote(l.remotes[1]) # None)
  /\ repo # None => l.head # None
  /\ (l.remoteAuthedRepo # None) <=>
       /\ l.head # None
       /\ l.source # None
       /\ configuredSourceError(l.source[1], repo, revParseStdout(l.head[1]),
                                Some([provider_id |-> l.source[1].provider_id])) = NoError

\* The error validateGitHubLink throws before its polling loop for what it has
\* read, or NoError.
validateGitHubLinkError(l, repo) ==
  IF ~l.build_environment_id
    THEN CliError("No build environment configured.")
  ELSE IF l.isGit # Some(TRUE)
    THEN CliError("Not at root of a git repository.")
  ELSE IF getGitHubRemote(l.remotes[1]) = None
    THEN CliError("No GitHub remote found.")
  ELSE IF l.source # None
    THEN configuredSourceError(l.source[1], repo, revParseStdout(l.head[1]),
                               IF l.remoteAuthedRepo = None THEN None ELSE l.remoteAuthedRepo[1])
    ELSE NoError

\* A validateGitHubLink that waits for the authorization without a terminal too.
afterSourceChecks_PollAlways(source, repo, isTty) ==
  IF source # None THEN "return"
  ELSE IF repo # None THEN "postProjectEnvironment"
  ELSE "poll"

\* Where validateGitHubLink goes once these checks have passed: it returns for
\* a project with a source link; without one it submits the local repository,
\* polls for its authorization first, or throws.
afterSourceChecks(source, repo, isTty) ==
  IF source # None THEN "return"
  ELSE IF repo # None THEN "postProjectEnvironment"
  ELSE IF ~isTty THEN "throw"
  ELSE "poll"

\* validateGitHubLink reads the project, the working directory and the
\* server's answers about the repositories, each where the function gets to it.
ValidateGitHubLink ==
  /\ pc = "validateGitHubLink"
  /\ IF deployTarget[1].create
       THEN /\ Fail([kind |-> "Error", msg |-> "Incorrect deploy target state", detail |-> None])
            /\ UNCHANGED <<link, localRepo>>
       ELSE \/ /\ \E h \in HttpStatuses : Fail(HttpError(h))
               /\ UNCHANGED <<link, localRepo>>
            \/ /\ \E l \in Links, repo \in Repositories :
                    /\ readInOrder(l, repo)
                    /\ link' = l
                    /\ localRepo' = repo
               /\ pc' = "checkGitHubLink"
               /\ UNCHANGED err
  /\ UNCHANGED <<deployOptions, now, pollExpiration, pollCount, deployTarget, deployConfig,
                 deployId, deployInfo, buildFilePaths, instructions, task, posted, firstError,
                 sent, latestCreatedDeployId, result>>
  /\ UNCHANGED <<auth, answer, loadedConfig, persisted, configWrites>>
  /\ UNCHANGED <<build, prompt>>

\* validateGitHubLink decides on what it has read: it throws, returns, submits
\* the source link or enters the loop that waits for the authorization.
CheckGitHubLink ==
  /\ pc = "checkGitHubLink"
  /\ link' = NoLink
  /\ LET e    == validateGitHubLinkError(link, localRepo)
         next == afterSourceChecks(link.source, localRepo, deployOptions.isTty)
     IN IF e # NoError
          THEN Fail(e) /\ localRepo' = None /\ UNCHANGED <<pollExpiration, pollCount>>
        ELSE IF next = "return"
          THEN pc' = "cloudBuild" /\ localRepo' = None /\ UNCHANGED <<err, pollExpiration, pollCount>>
        ELSE IF next = "postProjectEnvironment"
          THEN pc' = "postProjectEnvironment" /\ UNCHANGED <<err, localRepo, pollExpiration, pollCount>>
        ELSE IF next = "throw"
          THEN /\ Fail(CliError("Cannot access repository for continuous deployment"))
               /\ UNCHANGED <<localRepo, pollExpiration, pollCount>>
        ELSE /\ pollExpiration' = PollExpirationFrom(now)
             /\ pollCount' = 0
             /\ pc' = "authorizationSleep"
             /\ UNCHANGED <<err, localRepo>>
  /\ UNCHANGED <<deployOptions, now, deployTarget, deployConfig, deployId, deployInfo,
                 buildFilePaths, instructions, task, posted, firstError, sent,
                 latestCreatedDeployId, result>>
  /\ UNCHANGED <<auth, answer, loadedConfig, persisted, configWrites>>
  /\ UNCHANGED <<build, prompt>>

\* while (!localRepo) { await new Promise((resolve) => setTimeout(resolve, 2000)); ...
AuthorizationSleep ==
  /\ pc = "authorizationSleep"
  /\ \E d \in Delays : now' = now + GITHUB_POLL_INTERVAL_MS + d
  /\ pc' = "authorizationPoll"
  /\ UNCHANGED <<deployOptions, pollExpiration, pollCount, deployTarget, deployConfig,
                 localRepo, deployId, deployInfo, buildFilePaths, instructions, task, posted,
                 firstError, sent, latestCreatedDeployId, result, err>>
  /\ UNCHANGED <<auth, answer, loadedConfig, persisted, configWrites, link>>
  /\ UNCHANGED <<build, prompt>>

\* ... the deadline, then getGitHubRepository again }
AuthorizationPoll ==
  /\ pc = "authorizationPoll"
  /\ IF PollExpired(now, pollExpiration)
       THEN /\ Fail(CliError("Repository authorization failed"))
            /\ UNCHANGED <<now, pollCount, localRepo>>
       ELSE /\ pollCount' = pollCount + 1
            /\ UNCHANGED now
            /\ \/ /\ \E h \in HttpStatuses : Fail(HttpError(h))
                  /\ UNCHANGED localRepo
               \/ \E repo \in (IF pollCount < MaxAuthorizationPolls THEN Repositories ELSE {None}) :
                    /\ localRepo' = repo
                    /\ pc' = IF repo # None THEN "postProjectEnvironment" ELSE "authorizationSleep"
                    /\ UNCHANGED err
  /\ UNCHANGED <<deployOptions, pollExpiration, deployTarget, deployConfig, deployId,
                 deployInfo, buildFilePaths, instructions, task, posted, firstError, sent,
                 latestCreatedDeployId, result>>
  /\ UNCHANGED <<auth, answer, loadedConfig, persisted, configWrites, link>>
  /\ UNCHANGED <<build, prompt>>

\* postProjectEnvironment with the local repository as the source, and the
\* return of validateGitHubLink.
PostProjectEnvironment ==
  /\ pc = "postProjectEnvironment"
  /\ sent' = [sent EXCEPT !.sourceLinks = @ + 1]
  /\ \/ \E h \in HttpStatuses : Fail(HttpError(h))
     \/ Fail(CliError("Setting source repository for continuous deployment failed"))
     \/ pc' = "cloudBuild" /\ UNCHANGED err
  /\ localRepo' = None
  /\ UNCHANGED <<deployOptions, now, pollExpiration, pollCount, deployTarget, deployConfig,
                 deployId, deployInfo, buildFilePaths, instructions, task, posted, firstError,
                 latestCreatedDeployId, result>>
  /\ UNCHANGED <<auth, answer, loadedConfig, persisted, configWrites, link>>
  /\ UNCHANGED <<build, prompt>>

(* ------------------------------ cloudBuild ---------------------------- *)

\* A test for any deploy id at all, not for a changed one.
deployStarted_AnyId(latest, target) == latest # None

\* latestCreatedDeployId !== deployTarget.project.latestCreatedDeployId
deployStarted(latest, target) == latest # target.project.latestCreatedDeployId

\* What settingsUrl throws on a target still to be created.
IncorrectTargetState ==
  [kind |-> "Error", msg |-> "Incorrect deploy target state", detail |-> None]

\* settingsUrl: the error it throws, or the URL of the project: its workspace
\* login and its slug.
settingsUrl(target) ==
  IF target.create
    THEN [error |-> IncorrectTargetState, url |-> None]
    ELSE [error |-> NoError, url |-> Some(<<target.workspace.login, target.project.slug>>)]

\* cloudBuild up to its loop: POST /cli/project/:id/build, then pollExpiration.
CloudBuild ==
  /\ pc = "cloudBuild"
  /\ IF deployTarget[1].create
       THEN /\ Fail([kind |-> "Error", msg |-> "Incorrect deploy target state", detail |-> None])
            /\ UNCHANGED <<sent, pollExpiration, pollCount>>
       ELSE /\ \/ /\ \E h \in HttpStatuses : Fail(HttpError(h))
                  /\ sent' = [sent EXCEPT !.triggers = @ + 1]
                  /\ UNCHANGED <<pollExpiration, pollCount>>
               \/ /\ sent' = [sent EXCEPT !.triggers = @ + 1,
                                          !.latestAtTrigger = Some(latestCreatedDeployId)]
                  /\ pollExpiration' = PollExpirationFrom(now)
                  /\ pollCount' = 0
                  /\ pc' = "cloudBuildPoll"
                  /\ UNCHANGED err
  /\ UNCHANGED <<deployOptions, now, deployTarget, deployConfig, localRepo, deployId,
                 deployInfo, buildFilePaths, instructions, task, posted, firstError,
                 latestCreatedDeployId, result>>
  /\ UNCHANGED <<auth, answer, loadedConfig, persisted, configWrites, link>>
  /\ UNCHANGED <<build, prompt>>

\* A cloudBuild that gives up as if the user had canceled.
RequestingDeployTimeoutError_Canceled == UserCanceled("User canceled deploy")

\* throw new CliError("Requesting deploy failed")
RequestingDeployTimeoutError == CliError("Requesting deploy failed")

\* One turn of the loop of cloudBuild up to the sleep: the deadline, then
\* getProject.  With a new latestCreatedDeployId cloudBuild returns it, and
\* startNewDeploy enters pollForProcessingCompletion with it.
CloudBuildPoll ==
  /\ pc = "cloudBuildPoll"
  /\ IF PollExpired(now, pollExpiration)
       THEN /\ Fail(RequestingDeployTimeoutError)
            /\ UNCHANGED <<now, pollCount, pollExpiration, deployId>>
       ELSE /\ UNCHANGED now
            /\ \/ /\ \E h \in HttpStatuses : Fail(HttpError(h))
                  /\ pollCount' = pollCount + 1
                  /\ UNCHANGED <<pollExpiration, deployId>>
               \/ /\ deployStarted(latestCreatedDeployId, deployTarget[1])
                  /\ settingsUrl(deployTarget[1]).error = NoError
                  /\ deployId' = latestCreatedDeployId
                  /\ pollExpiration' = PollExpirationFrom(now)
                  /\ pollCount' = 0
                  /\ pc' = "pollForProcessingCompletion"
                  /\ UNCHANGED err
               \/ /\ ~deployStarted(latestCreatedDeployId, deployTarget[1])
                  /\ pollCount' = pollCount + 1
                  /\ pc' = "cloudBuildSleep"
                  /\ UNCHANGED <<err, pollExpiration, deployId>>
  /\ sent' = IF pc' = "pollForProcessingCompletion"
               THEN [sent EXCEPT !.latestAtTrigger = None]
               ELSE sent
  /\ UNCHANGED <<deployOptions, deployTarget, deployConfig, localRepo, deployInfo,
                 buildFilePaths, instructions, task, posted, firstError,
                 latestCreatedDeployId, result>>
  /\ UNCHANGED <<auth, answer, loadedConfig, persisted, configWrites, link>>
  /\ UNCHANGED <<build, prompt>>

\* await new Promise((resolve) => setTimeout(resolve, pollInterval))
CloudBuildSleep ==
  /\ pc = "cloudBuildSleep"
  /\ \E d \in Delays : now' = now + pollInterval + d
  /\ pc' = "cloudBuildPoll"
  /\ UNCHANGED <<deployOptions, pollExpiration, pollCount, deployTarget, deployConfig,
                 localRepo, deployId, deployInfo, buildFilePaths, instructions, task, posted,
                 firstError, sent, latestCreatedDeployId, result, err>>
  /\ UNCHANGED <<auth, answer, loadedConfig, persisted, configWrites, link>>
  /\ UNCHANGED <<build, prompt>>

(* ------------------------------ the server ---------------------------- *)

\* While a continuous-deployment attempt is under way the server creates a
\* deploy of the project: the build this attempt triggered has started, or
\* another client or a push started one.
ServerCreatesDeploy ==
  /\ pc \in {"startNewDeploy", "validateGitHubLink", "checkGitHubLink", "authorizationSleep", "authorizationPoll",
            "postProjectEnvironment", "cloudBuild", "cloudBuildPoll", "cloudBuildSleep"}
  /\ deployConfig[1].continuousDeployment = Some(TRUE)
  /\ pc \in {"cloudBuildPoll", "cloudBuildSleep"} => pollCount < MaxStartPolls
  /\ NextDeployId \in DeployIds
  /\ latestCreatedDeployId' = Some(NextDeployId)
  /\ UNCHANGED <<pc, deployOptions, now, pollExpiration, pollCount, deployTarget,
                 deployConfig, localRepo, deployId, deployInfo, buildFilePaths,
                 instructions, task, posted, firstError, sent, result, err>>
  /\ UNCHANGED <<auth, answer, loadedConfig, persisted, configWrites, link>>
  /\ UNCHANGED <<build, prompt>>

(* ------------------------------- Spec --------------------------------- *)

Next ==
  \/ Deploy
  \/ GetCurrentUser
  \/ CheckCurrentUser
  \/ ConfirmLogin
  \/ LoginInner
  \/ CheckDeployCreated
  \/ GetDeployConfig
  \/ GetUpdatedDeployConfig
  \/ GetDeployTarget
  \/ SelectWorkspace
  \/ GetWorkspaceProjects
  \/ SelectProject
  \/ ConfirmCreate
  \/ AskTitle
  \/ AskSlug
  \/ SelectAccess
  \/ CheckDeployTarget
  \/ ConfirmOverwrite
  \/ PostProject
  \/ GetContinuousDeployment
  \/ ConfirmContinuousDeployment
  \/ SetDeployConfig
  \/ StartNewDeploy
  \/ GetBuildFilePaths
  \/ ConfirmBuildNow
  \/ CheckBuildAge
  \/ ConfirmRebuild
  \/ Build
  \/ ReturnBuildFilePaths
  \/ CreateNewDeploy
  \/ HashLocalFiles
  \/ PostDeployManifest
  \/ StartUpload
  \/ PostDeployFile
  \/ PostDeployFileReturns
  \/ PostDeployFileFails
  \/ UploadFilesReturns
  \/ MarkDeployUploaded
  \/ PostDeployUploadedReturns
  \/ PollForProcessingCompletion
  \/ PollSleep
  \/ ValidateGitHubLink
  \/ CheckGitHubLink
  \/ AuthorizationSleep
  \/ AuthorizationPoll
  \/ PostProjectEnvironment
  \/ CloudBuild
  \/ CloudBuildPoll
  \/ CloudBuildSleep
  \/ ServerCreatesDeploy

Spec == Init /\ [][Next]_vars

(* ------------------ the upload runner with many files ----------------- *)

\* The manifests answered for builds of about RATE_LIMIT_THRESHOLD files: u files
\* marked "upload", followed by k files marked "skip".
RateManifests ==
  {[status |-> "ok",
    files  |-> [p \in 1 .. (u + k) |-> IF p <= u THEN "upload" ELSE "skip"]] :
      u \in (RATE_LIMIT_THRESHOLD - RateMargin) .. (RATE_LIMIT_THRESHOLD + RateMargin),
      k \in 0 .. 1}

\* uploadFiles of a resumed deploy at its call of runAllWithConcurrencyLimit for
\* the uploads, the manifest answered without an error.  The specification of
\* this part leaves the failures of upload requests out: the server accepts
\* every file.
RateInit ==
  /\ pc = "runAllWithConcurrencyLimit"
  /\ deployOptions \in {o \in DeployOptionsSet :
                          /\ o.deployId = Some(1)
                          /\ o.maxConcurrency = Some(1)
                          /\ o.deployPollInterval = None}
  /\ now = 0
  /\ pollExpiration = 0
  /\ pollCount = 0
  /\ deployTarget = None
  /\ deployConfig = None
  /\ localRepo = None
  /\ deployId = Some(1)
  /\ deployInfo = None
  /\ instructions \in RateManifests
  /\ buildFilePaths = Count(DOMAIN instructions.files)
  /\ task = [p \in DOMAIN instructions.files |->
               IF p \in filesToUpload(instructions) THEN "queued" ELSE "none"]
  /\ posted = [p \in DOMAIN instructions.files |-> 0]
  /\ firstError = None
  /\ sent = [NothingSent EXCEPT !.ids = {1}, !.getDeploy = 1, !.checked = Some("created"),
                                !.manifests = 1]
  /\ latestCreatedDeployId = Some(1)
  /\ result = None
  /\ err = NoError
  /\ auth = None
  /\ answer = None
  /\ loadedConfig = None
  /\ persisted = None
  /\ configWrites = 0
  /\ link = NoLink
  /\ build = NoBuild
  /\ prompt = NoPrompt

RateNext ==
  \/ StartUpload
  \/ PostDeployFile
  \/ PostDeployFileReturns
  \/ UploadFilesReturns

RateLimitSpec == RateInit /\ [][RateNext]_vars

(* ------------------------------ claims -------------------------------- *)

\* The attempt uploads files itself: resume mode, or a new deploy built locally.
LocalAttempt ==
  resumeMode \/ (deployConfig # None /\ deployConfig[1].continuousDeployment # Some(TRUE))

\* The attempt is a new deploy built in the cloud.
CloudAttempt ==
  ~resumeMode /\ deployConfig # None /\ deployConfig[1].continuousDeployment = Some(TRUE)

\* C1: in an attempt that uploads files, the manifest is submitted before any
\* file upload, every file upload has finished when the mark-uploaded call is
\* sent, and the mark-uploaded call has returned when the first status request
\* of the completion poll is sent.
C1_UploadOrder ==
  /\ (sent.filePosted \/ \E p \in Paths : posted[p] > 0) => sent.manifests = 1
  /\ sent.uploaded > 0 =>
       /\ sent.manifests = 1
       /\ \A p \in Paths : task[p] = "none"
  /\ (LocalAttempt /\ sent.polled) => (sent.uploaded = 1 /\ sent.uploadedDone)

C1_Witness ==
  /\ pc = "done"
  /\ LocalAttempt
  /\ sent.manifests = 1 /\ sent.filePosted /\ sent.uploadedDone /\ sent.polled

\* The positions of setApiClientAndCurrentUser.
Authenticating == {"start", "getCurrentUser", "checkCurrentUser", "confirmLogin", "loginInner"}

\* C2: in resume mode no target is resolved and the status of the deploy is
\* asked first; with any status but "created" the attempt fails with the
\* unexpected-status error, and no build, manifest, file upload, mark-uploaded
\* call or completion poll is made.
C2_ResumeChecksStatus ==
  resumeMode =>
    /\ sent.targets = 0 /\ sent.deploys = 0
    /\ (sent.builds > 0 \/ sent.manifests > 0 \/ sent.filePosted \/ sent.uploaded > 0
          \/ sent.polled \/ pc \notin Authenticating \cup {"checkDeployCreated", "failed"})
         => sent.checked = Some("created")
    /\ (sent.checked # None /\ sent.checked # Some("created")) =>
         /\ pc = "failed"
         /\ err = [kind |-> "CliError", msg |-> "Deploy has an unexpected status",
                   detail |-> sent.checked]
         /\ sent.builds = 0 /\ sent.manifests = 0 /\ ~sent.filePosted
         /\ sent.uploaded = 0 /\ ~sent.polled

C2_Witness ==
  resumeMode /\ sent.checked = Some("pending") /\ pc = "failed"

\* C3: the completion poll ends with the deploy record on "uploaded", throws on
\* "failed" and "canceled", sleeps the poll interval and goes round again on
\* "created" and "pending", and throws the unknown-status error on any other
\* status; after a throw or the return nothing more happens.
C3_StatusClassification ==
  [][/\ (pc = "pollForProcessingCompletion" /\ pollCount' = pollCount + 1
           /\ err'.kind # "HttpError") =>
          /\ deployInfo' # None
          /\ deployInfo'[1] = "uploaded" =>
               /\ pc' = "done"
               /\ result' = Some([id |-> deployId[1], status |-> "uploaded"])
               /\ err' = NoError
          /\ deployInfo'[1] = "failed" =>
               pc' = "failed" /\ err' = CliError("Deploy failed to process on server")
          /\ deployInfo'[1] = "canceled" =>
               pc' = "failed" /\ err' = CliError("Deploy canceled")
          /\ deployInfo'[1] \in {"created", "pending"} =>
               pc' = "pollSleep" /\ err' = NoError /\ result' = None
          /\ deployInfo'[1] \notin {"uploaded", "failed", "canceled", "created", "pending"} =>
               /\ pc' = "failed"
               /\ err' = [kind |-> "CliError", msg |-> "Unknown deploy status",
                          detail |-> deployInfo']
     /\ pc = "pollSleep" =>
          /\ pc' = "pollForProcessingCompletion"
          /\ now' >= now + (IF deployOptions.deployPollInterval = None
                              THEN DEPLOY_POLL_INTERVAL_MS
                              ELSE deployOptions.deployPollInterval[1])
          /\ pollCount' = pollCount
     /\ pc \in {"failed", "done"} => UNCHANGED vars
    ]_vars

C3_Witness ==
  /\ pc = "failed"
  /\ deployInfo = Some("archived")
  /\ pollCount >= 2

\* C4: a polling loop that finds the clock past its deadline throws its timeout
\* error and does not send the polled request in that turn, in the cloud-build
\* loop, the authorization loop and the completion loop alike; a loop that is
\* late at its first check sends no polled request at all.
C4_ExpiredLoopSendsNothing ==
  [][/\ (pc = "pollForProcessingCompletion" /\ now > pollExpiration) =>
          /\ pc' = "failed"
          /\ err'.msg = "Deploy failed to process on server: status = "
          /\ pollCount' = pollCount /\ sent' = sent /\ deployInfo' = deployInfo
     /\ (pc = "cloudBuildPoll" /\ now > pollExpiration
           /\ latestCreatedDeployId' = latestCreatedDeployId) =>
          /\ pc' = "failed"
          /\ err' = CliError("Requesting deploy failed")
          /\ pollCount' = pollCount /\ sent' = sent /\ deployId' = deployId
     /\ (pc = "authorizationPoll" /\ now > pollExpiration
           /\ latestCreatedDeployId' = latestCreatedDeployId) =>
          /\ pc' = "failed"
          /\ err' = CliError("Repository authorization failed")
          /\ pollCount' = pollCount /\ sent' = sent /\ localRepo' = localRepo
    ]_vars

C4_Witness ==
  /\ pc = "authorizationPoll"
  /\ now > pollExpiration
  /\ pollCount = 0

\* The positions of the three polling loops.
CompletionLoop == {"pollForProcessingCompletion", "pollSleep"}

CloudBuildLoop == {"cloudBuildPoll", "cloudBuildSleep"}

AuthorizationLoop == {"authorizationSleep", "authorizationPoll"}

PollLoops == {CompletionLoop, CloudBuildLoop, AuthorizationLoop}

\* The deadline of a polling loop is computed once, on entering the loop, and
\* never again inside it.
DeadlineFixedAtEntry ==
  \A loop \in PollLoops :
    /\ (pc \in loop /\ pc' \in loop) => pollExpiration' = pollExpiration
    /\ (pc \notin loop /\ pc' \in loop) => pollExpiration' = now' + DEPLOY_POLL_MAX_MS

\* C5 (as stated): the deadline of each loop is computed once, and on passing
\* it each of the three loops fails with a timeout error that names the last
\* status it saw.
C5_TimeoutNamesStatus ==
  [][/\ DeadlineFixedAtEntry
     /\ (pc \in {"pollForProcessingCompletion", "cloudBuildPoll", "authorizationPoll"}
           /\ now > pollExpiration /\ pc' = "failed") =>
          /\ err'.kind = "CliError"
          /\ err'.detail # None
    ]_vars

\* C5 (amended): the deadline of each loop is computed once on entering the
\* loop and never re-armed or extended by a poll or a sleep; on passing it each
\* loop fails with its timeout error; the error of the completion loop names
\* the last status seen, the errors of the cloud-build and authorization loops
\* name no status.
C5_DeadlineOnceTimeoutError ==
  [][/\ DeadlineFixedAtEntry
     /\ (pc = "pollForProcessingCompletion" /\ now > pollExpiration) =>
          /\ pc' = "failed"
          /\ deployInfo # None
          /\ err' = [kind |-> "CliError",
                     msg |-> "Deploy failed to process on server: status = ",
                     detail |-> deployInfo]
     /\ (pc = "cloudBuildPoll" /\ now > pollExpiration /\ pc' # pc) =>
          /\ pc' = "failed"
          /\ err' = [kind |-> "CliError", msg |-> "Requesting deploy failed",
                     detail |-> None]
     /\ (pc = "authorizationPoll" /\ now > pollExpiration /\ pc' # pc) =>
          /\ pc' = "failed"
          /\ err' = [kind |-> "CliError", msg |-> "Repository authorization failed",
                     detail |-> None]
    ]_vars

C5_Witness ==
  /\ pc = "failed"
  /\ err.msg = "Deploy failed to process on server: status = "
  /\ err.detail = Some("pending")
  /\ pollCount >= 2

\* C6: the cloud-build loop hands over a deploy id only when the project
\* reports a latest deploy id that is not null and differs from the one read
\* before the build was triggered; while the project reports that earlier id
\* the loop hands over nothing.
C6_NewDeployIdOnly ==
  CloudAttempt =>
    /\ pc \in CloudBuildLoop => deployId = None
    /\ (pc \in CompletionLoop \/ pc = "done") => deployId # None
    /\ deployId # None =>
         /\ deployId # deployTarget[1].project.latestCreatedDeployId
         /\ latestCreatedDeployId # None
         /\ deployId[1] <= latestCreatedDeployId[1]
    /\ latestCreatedDeployId = deployTarget[1].project.latestCreatedDeployId =>
         (deployId = None /\ pc \notin CompletionLoop /\ pc # "done")

C6_Witness ==
  /\ CloudAttempt
  /\ pc = "done"
  /\ deployTarget[1].project.latestCreatedDeployId = Some(1)
  /\ deployId = Some(2)

\* C7: when the manifest response has the status "error" or marks any file
\* "error", the attempt fails with the manifest error and no file is uploaded,
\* no mark-uploaded call is sent and no completion poll is made.
C7_RejectedManifestStops ==
  (instructions.status = "error" \/ \E p \in Paths : instructions.files[p] = "error") =>
    /\ pc = "failed"
    /\ err = CliError("Server rejected deploy manifest")
    /\ ~sent.filePosted
    /\ \A p \in Paths : posted[p] = 0 /\ task[p] = "none"
    /\ sent.uploaded = 0
    /\ ~sent.polled

C7_Witness ==
  /\ pc = "failed"
  /\ instructions.status = "ok"
  /\ \E p, q \in Paths : instructions.files[p] = "error" /\ instructions.files[q] = "upload"

\* C8: a file is uploaded at most once and only when the manifest response
\* marks it "upload", never when it marks it "skip"; when the upload phase
\* ends without an error the uploaded files are exactly the files marked
\* "upload".
C8_UploadsExactlyMarked ==
  /\ \A p \in Paths :
       /\ posted[p] <= 1
       /\ posted[p] = 1 => instructions.files[p] = "upload"
       /\ task[p] # "none" => instructions.files[p] = "upload"
  /\ (pc = "runAllWithConcurrencyLimit" /\ firstError = None
        /\ \A p \in Paths : task[p] \in {"none", "done", "failed"}) =>
       \A p \in Paths :
         (posted[p] = 1 /\ task[p] = "done") <=> instructions.files[p] = "upload"

C8_Witness ==
  /\ pc = "runAllWithConcurrencyLimit"
  /\ firstError = None
  /\ \A p \in Paths : task[p] \in {"none", "done", "failed"}
  /\ \E p, q \in Paths :
       /\ instructions.files[p] = "upload" /\ posted[p] = 1
       /\ instructions.files[q] = "skip" /\ posted[q] = 0

\* C9: with maxConcurrency = N, no more than N uploads are in flight at any
\* time, however many uploads are pending.
C9_AtMostNInFlight ==
  deployOptions.maxConcurrency # None =>
    Cardinality({p \in Paths : task[p] = "inflight"}) <= deployOptions.maxConcurrency[1]

C9_Witness ==
  /\ deployOptions.maxConcurrency = Some(2)
  /\ Cardinality({p \in Paths : instructions.files[p] = "upload"}) = 3
  /\ Cardinality({p \in Paths : task[p] = "inflight"}) = 2
  /\ \E p \in Paths : task[p] = "queued"

\* The attempts of Spec at a terminal, with the default poll interval, for a
\* project that has a deploy already: the upload phase reads none of the three.
UploadInit ==
  /\ Init
  /\ deployOptions.deployPollInterval = None
  /\ deployOptions.isTty
  /\ latestCreatedDeployId = Some(1)

\* The runner goes on as long as it can: the event loop runs every continuation
\* that is ready, and every upload request comes back, with a response or an
\* error.
UploadSpec ==
  /\ UploadInit
  /\ [][Next]_vars
  /\ WF_vars(StartUpload)
  /\ WF_vars(PostDeployFile)
  /\ WF_vars(PostDeployFileReturns \/ PostDeployFileFails)
  /\ WF_vars(UploadFilesReturns)

\* What is true of the upload phase at every moment: an upload error is never
\* swallowed, the phase fails with the first upload error and only when no
\* upload is in flight, and it returns only when every file marked "upload"
\* was uploaded.
UploadPhaseSafe ==
  /\ firstError # None =>
       /\ pc \in {"runAllWithConcurrencyLimit", "failed"}
       /\ \E p \in Paths : task[p] = "failed"
  /\ (pc = "failed" /\ firstError # None) =>
       /\ \A p \in Paths : task[p] # "inflight"
       /\ err = firstError[1]
  /\ (pc = "runAllWithConcurrencyLimit" /\ firstError = None) =>
       \A p \in Paths : task[p] # "failed"
  /\ pc \in {"markDeployUploaded", "postDeployUploaded", "pollForProcessingCompletion",
             "pollSleep", "done"} =>
       \A p \in Paths : task[p] = "none"

\* C10: the upload phase always ends: either every upload completes and the
\* phase returns, or the phase fails with the first upload error, after every
\* upload that was started has settled; no file marked "upload" is left out.
C10_AllCompleteOrFirstError ==
  /\ []UploadPhaseSafe
  /\ [][pc = "runAllWithConcurrencyLimit" /\ pc' # pc =>
          /\ \A p \in Paths : task[p] # "inflight"
          /\ firstError = None =>
               /\ pc' = "markDeployUploaded"
               /\ \A p \in Paths : instructions.files[p] = "upload" => task[p] = "done"
          /\ firstError # None => (pc' = "failed" /\ err' = firstError[1])]_vars
  /\ (pc = "runAllWithConcurrencyLimit") ~> (pc \in {"markDeployUploaded", "failed"})

C10_Witness ==
  /\ pc = "failed"
  /\ firstError # None
  /\ err = firstError[1]
  /\ \E p, q \in Paths : task[p] = "failed" /\ task[q] = "done" /\ p < q

\* C11: whether uploads wait on the RateLimiter depends on the number of files
\* to upload only: with 300 or fewer no upload task ever waits on it, with more
\* than 300 every upload request is sent by a task that waited on it.
C11_RateLimitedAbove300 ==
  [][pc = "runAllWithConcurrencyLimit" =>
       LET n == Cardinality({p \in DOMAIN instructions.files :
                               instructions.files[p] = "upload"})
       IN /\ n <= 300 =>
               \A p \in DOMAIN task : task[p] # "rateLimited" /\ task'[p] # "rateLimited"
          /\ n > 300 =>
               \A p \in DOMAIN task :
                 /\ task[p] # "started" /\ task'[p] # "started"
                 /\ posted'[p] > posted[p] => task[p] = "rateLimited"
    ]_vars

C11_Witness ==
  /\ pc = "runAllWithConcurrencyLimit"
  /\ Cardinality({p \in DOMAIN instructions.files : instructions.files[p] = "upload"}) = 301
  /\ \E p \in DOMAIN task : task[p] = "done" /\ posted[p] = 1
  /\ \E p \in DOMAIN task : task[p] = "rateLimited"

\* validateGitHubLink has read everything it compares with the recorded source
\* link and is about to decide.
ComparesSourceLink ==
  pc = "checkGitHubLink" /\ link.source # None /\ link.head # None

\* The repository the server derived from the local remote is not the one
\* recorded as the source.
RepositoryMismatch ==
  localRepo # None /\ localRepo[1].provider_id # link.source[1].provider_id

\* The local branch is not the branch recorded as the source.
BranchMismatch == link.head[1] # link.source[1].branch

\* C12: with a recorded source link, a local repository that is not the
\* recorded one, or a local branch that is not the recorded one, makes the
\* validation fail, and no cloud build is triggered.
C12_MismatchIsFatal ==
  [][(ComparesSourceLink /\ pc' # pc /\ (RepositoryMismatch \/ BranchMismatch))
       => (pc' = "failed" /\ sent'.triggers = 0)]_vars

\* A remote of the working directory has the HTTPS or the SSH form of GitHub.
HasGitHubRemote ==
  \E i \in DOMAIN link.remotes[1] :
    link.remotes[1][i].host \in {"https://github.com/", "git@github.com:"}

\* What validateGitHubLink has read cannot be deployed from: no build
\* environment, no git root, no GitHub remote, or a recorded repository that
\* the server does not let this user see.
UnusableLink ==
  \/ ~link.build_environment_id
  \/ link.isGit = Some(FALSE)
  \/ link.remotes # None /\ ~HasGitHubRemote
  \/ link.source # None /\ link.remoteAuthedRepo = Some(None)

\* C13: on the continuous-deployment branch, a project without a build
\* environment, a working directory that is not a git root or has no GitHub
\* remote, or a recorded repository that is not accessible, ends the attempt
\* with an error; no cloud build is triggered and no source link submitted,
\* then or later.
C13_UnusableLinkIsFatal ==
  [][/\ (pc = "checkGitHubLink" /\ pc' # pc /\ UnusableLink)
          => (pc' = "failed" /\ err'.kind = "CliError" /\ sent' = sent)
     /\ pc = "failed" => (pc' = "failed" /\ sent' = sent)
    ]_vars

C13_Witness ==
  /\ pc = "failed"
  /\ err \in {CliError("No build environment configured."),
              CliError("Not at root of a git repository."),
              CliError("No GitHub remote found."),
              CliError("Cannot access configured repository")}
  /\ CloudAttempt
  /\ sent.triggers = 0
  /\ sent.sourceLinks = 0

\* validateGitHubLink has found the project without a source link and has the
\* answer of the first lookup of the local repository.
LooksForAuthorization ==
  pc = "checkGitHubLink" /\ link.source = None /\ link.head # None

\* C14: for a project without a source link, a lookup of the local repository
\* that answers null fails the attempt at once without a terminal, and with
\* one is repeated until it answers a repository or the deadline has passed;
\* the source link is submitted only with a repository a lookup has answered,
\* once at most, and never for a project that has a source link.
C14_SourceLinkAfterLookup ==
  [][/\ (LooksForAuthorization /\ pc' # pc /\ localRepo = None /\ ~deployOptions.isTty)
          => (pc' = "failed" /\ sent' = sent /\ pollCount' = pollCount)
     /\ (LooksForAuthorization /\ pc' # pc /\ localRepo = None /\ deployOptions.isTty)
          => (pc' = "authorizationSleep" /\ sent' = sent)
     /\ (pc = "authorizationPoll" /\ pc' \notin {pc, "failed"})
          => /\ ~PollExpired(now, pollExpiration)
             /\ pc' = IF localRepo' = None THEN "authorizationSleep" ELSE "postProjectEnvironment"
     /\ (pc = "authorizationPoll" /\ pc' # pc /\ PollExpired(now, pollExpiration))
          => (pc' = "failed" /\ pollCount' = pollCount)
     /\ (pc = "authorizationSleep" /\ pc' # pc) => pc' = "authorizationPoll"
     /\ (pc' = "postProjectEnvironment" /\ pc # pc')
          => /\ localRepo' # None
             /\ \/ LooksForAuthorization /\ localRepo' = localRepo
                \/ pc = "authorizationPoll"
     /\ sent'.sourceLinks # sent.sourceLinks
          => /\ pc = "postProjectEnvironment"
             /\ localRepo # None
             /\ sent.sourceLinks = 0
             /\ sent'.sourceLinks = 1
     /\ (pc = "checkGitHubLink" /\ pc' # pc /\ link.source # None)
          => (pc' \in {"failed", "cloudBuild"} /\ sent' = sent)
     /\ (pc \in {"cloudBuild", "cloudBuildPoll", "cloudBuildSleep"})
          => pc' \notin {"postProjectEnvironment", "authorizationSleep", "authorizationPoll"}
    ]_vars

C14_Witness ==
  /\ pc = "cloudBuild"
  /\ sent.sourceLinks = 1
  /\ deployOptions.isTty
  /\ pollCount = 2

\* getDeployTarget holds an existing project whose id is not the projectId that
\* deploy.json had.
DriftFound ==
  /\ pc \in {"checkDeployTarget", "confirmOverwrite"}
  /\ ~deployTarget[1].create
  /\ loadedConfig[1].projectId # None
  /\ loadedConfig[1].projectId[1] # deployTarget[1].project.id

\* C15: when the persisted projectId is set and is not the id of the existing
\* project resolved, the attempt fails without a terminal, and with one it goes
\* on only if the user confirms the overwrite; until then nothing is written to
\* deploy.json and nothing is sent, and a failed attempt does neither.
C15_DriftNeedsConfirmation ==
  [][/\ (DriftFound /\ pc = "checkDeployTarget" /\ pc' # pc)
          => /\ pc' = IF deployOptions.isTty THEN "confirmOverwrite" ELSE "failed"
             /\ sent' = sent /\ persisted' = persisted /\ configWrites' = configWrites
     /\ (DriftFound /\ pc = "confirmOverwrite" /\ pc' # pc)
          => /\ deployOptions.isTty
             /\ IF answer' = Some("yes") THEN pc' = "getContinuousDeployment" ELSE pc' = "failed"
             /\ sent' = sent /\ persisted' = persisted /\ configWrites' = configWrites
     /\ pc = "failed"
          => (pc' = "failed" /\ sent' = sent /\ persisted' = persisted /\ configWrites' = configWrites)
    ]_vars

C15_Witness ==
  /\ pc = "setDeployConfig"
  /\ deployOptions.isTty
  /\ answer = Some("yes")
  /\ loadedConfig[1].projectId = Some("p0")
  /\ deployTarget[1] = ExistingTarget
  /\ configWrites = 0
  /\ sent.deploys = 0 /\ sent.triggers = 0

\* The positions of getDeployTarget.
ResolvingTarget ==
  {"getDeployTarget", "checkDeployTarget", "confirmOverwrite", "postProject",
   "getContinuousDeployment", "confirmContinuousDeployment", "setDeployConfig"}

\* C16 as the spec has it: a target resolution that succeeds has written
\* deploy.json exactly once, and one that fails has not written it.
C16_WrittenExactlyOnce ==
  /\ pc = "startNewDeploy" => configWrites = 1
  /\ (pc = "failed" /\ deployConfig = None) => configWrites = 0

\* C16: getDeployTarget writes deploy.json once, as the last thing before it
\* returns, and not at all when it throws; getUpdatedDeployConfig writes it
\* once more before that when the config has a projectId but lacks the slug or
\* the login (null or empty) and the project is found.  So a resolution that succeeds has
\* written once or twice, and nothing else writes.
C16_WrittenOncePerFunction ==
  [][/\ (configWrites' # configWrites \/ (persisted' # persisted /\ pc # "getDeployConfig"))
          => \/ /\ pc = "getUpdatedDeployConfig"
                /\ loadedConfig[1].projectId # None
                /\ \/ loadedConfig[1].projectSlug \in {None, Some(<<>>)}
                   \/ loadedConfig[1].workspaceLogin \in {None, Some(<<>>)}
                /\ pc' = "getDeployTarget"
                /\ configWrites = 0 /\ configWrites' = 1
                /\ persisted' = loadedConfig'
                /\ loadedConfig'[1].projectSlug \notin {None, Some(<<>>)}
                /\ loadedConfig'[1].workspaceLogin \notin {None, Some(<<>>)}
             \/ /\ pc = "setDeployConfig"
                /\ pc' = "startNewDeploy"
                /\ configWrites' = configWrites + 1
                /\ persisted' = deployConfig'
             \/ /\ pc = "startNewDeploy"
                /\ configWrites' = 0
                /\ persisted' = persisted
     /\ (pc' = "startNewDeploy" /\ pc' # pc)
          => (pc = "setDeployConfig" /\ configWrites' \in {1, 2})
     /\ (pc \in ResolvingTarget /\ pc' = "failed")
          => (configWrites' = configWrites /\ persisted' = persisted)
     /\ (pc \in ResolvingTarget /\ pc' \in ResolvingTarget)
          => (configWrites' = configWrites /\ persisted' = persisted)
    ]_vars

C16_Witness ==
  /\ pc = "startNewDeploy"
  /\ configWrites = 2
  /\ persisted = deployConfig

\* C17: in a new deploy, when the deploy record is created, the manifest sent
\* or a file uploaded, deploy.json holds the reconciled config, and its
\* projectId, projectSlug and workspaceLogin are those of the project the deploy
\* record is created for.
C17_PersistedBeforeDeploy ==
  (~resumeMode /\ (sent.deploys > 0 \/ sent.manifests > 0 \/ sent.filePosted))
    => /\ deployConfig # None
       /\ persisted = deployConfig
       /\ persisted[1].projectId = Some(deployTarget[1].project.id)
       /\ persisted[1].projectSlug = Some(deployTarget[1].project.slug)
       /\ persisted[1].workspaceLogin = Some(deployTarget[1].workspace.login)
       /\ sent.deployProject = persisted[1].projectId

C17_Witness ==
  /\ ~resumeMode
  /\ sent.filePosted
  /\ sent.deployProject = Some("p2")
  /\ persisted # None
  /\ persisted[1].projectId = Some("p2")
  /\ persisted[1].projectSlug = Some(Slug2)

\* C18 as the spec has it: without a terminal and with continuousDeployment
\* null in deploy.json, getDeployTarget does not ask for it and leaves it
\* null, and startNewDeploy then fails instead of taking a branch.
C18_NoPromptWithoutTerminal ==
  [][/\ (pc = "getContinuousDeployment" /\ pc' # pc /\ ~deployOptions.isTty
           /\ loadedConfig[1].continuousDeployment = None)
          => (pc' = "setDeployConfig" /\ loadedConfig' = loadedConfig)
     /\ (pc = "startNewDeploy" /\ pc' # pc /\ ~deployOptions.isTty
           /\ deployConfig[1].continuousDeployment = None)
          => pc' = "failed"
    ]_vars

\* The operations that need the project are called with a target that is
\* still to be created.
ContractInit ==
  /\ pc \in {"createNewDeploy", "validateGitHubLink", "cloudBuild"}
  /\ deployOptions \in {o \in DeployOptionsSet : o.deployId = None}
  /\ now = 0
  /\ pollExpiration = 0
  /\ pollCount = 0
  /\ deployTarget = Some(CreateTarget)
  /\ deployConfig = Some([projectId |-> None, projectSlug |-> None, workspaceLogin |-> None,
                          continuousDeployment |-> Some(pc # "createNewDeploy")])
  /\ localRepo = None
  /\ deployId = None
  /\ deployInfo = None
  /\ buildFilePaths = IF pc = "createNewDeploy" THEN 1 ELSE 0
  /\ instructions = NoInstructions
  /\ task = [p \in Paths |-> "none"]
  /\ posted = [p \in Paths |-> 0]
  /\ firstError = None
  /\ sent = NothingSent
  /\ latestCreatedDeployId \in {None, Some(1)}
  /\ result = None
  /\ err = NoError
  /\ auth = None
  /\ answer = None
  /\ loadedConfig = None
  /\ persisted = deployConfig
  /\ configWrites = 0
  /\ link = NoLink
  /\ build = NoBuild
  /\ prompt = NoPrompt

\* The attempts of Spec, and those calls.
ContractSpec == (Init \/ ContractInit) /\ [][Next]_vars

\* C19: the target changes only from one still to be created to the project
\* that postProject has just created, and never after that; it is an existing
\* project whenever getDeployTarget returns; and createNewDeploy,
\* validateGitHubLink, cloudBuild and settingsUrl throw on a target still to be
\* created, before they send anything.
C19_TargetTag ==
  [][/\ (deployTarget # None /\ deployTarget' # deployTarget)
          => /\ deployTarget[1].create
             /\ pc = "postProject"
             /\ pc' # "failed"
             /\ sent'.projects = sent.projects + 1
             /\ deployTarget' # None
             /\ ~deployTarget'[1].create
     /\ (pc = "postProject" /\ pc' \notin {pc, "failed"}) => ~deployTarget'[1].create
     /\ (pc' = "startNewDeploy" /\ pc' # pc) => ~deployTarget'[1].create
     /\ (pc \in {"createNewDeploy", "validateGitHubLink", "cloudBuild"} /\ pc' # pc
           /\ deployTarget[1].create)
          => (pc' = "failed" /\ err'.kind = "Error" /\ sent' = sent)
     /\ settingsUrl(CreateTarget).error = IncorrectTargetState
     /\ settingsUrl(CreateTarget).url = None
    ]_vars

C19_Witness ==
  /\ pc = "startNewDeploy"
  /\ sent.projects = 1
  /\ deployTarget[1] = createdTarget(CreateTarget)

\* A call with a target still to be created has thrown.
C19_ContractWitness ==
  /\ pc = "failed"
  /\ deployTarget = Some(CreateTarget)
  /\ err = IncorrectTargetState
  /\ sent = NothingSent

\* setApiClientAndCurrentUser has no user and no terminal, and is about to
\* throw.
NoUserNoTerminal ==
  pc = "checkCurrentUser" /\ ~auth[1].currentUser /\ ~deployOptions.isTty

\* The status of the failed current-user request is kept as the catch clause
\* has it; another status is thrown as it came.
StatusRecorded ==
  (auth # None /\ auth[1].statusCode # None)
    => /\ auth[1].apiKey # None
       /\ auth[1].statusCode = Some("401") => auth[1].authError = Some("unauthenticated")
       /\ auth[1].statusCode = Some("403") => auth[1].authError = Some("forbidden")
       /\ auth[1].statusCode[1] \notin {"401", "403"}
            => (pc = "failed" /\ err = HttpError(auth[1].statusCode[1]) /\ auth[1].authError = None)

UserCancelErrors == {UserCanceled("User canceled deploy"), UserCanceled("User canceled deploy.")}

\* The confirm prompts where "no" is a refusal, and the prompts where only the
\* cancel symbol is.
RefusablePrompts == {"confirmLogin", "confirmOverwrite", "confirmCreate", "confirmBuildNow"}

CancelablePrompts ==
  {"confirmContinuousDeployment", "confirmRebuild", "selectWorkspace", "selectProject",
   "askTitle", "askSlug", "selectAccess", "createNewDeploy"}

\* The step ends the attempt with the user-cancel error, and sends, writes and
\* builds nothing.
EndsCanceled ==
  /\ pc' = "failed"
  /\ err' \in UserCancelErrors
  /\ sent' = sent
  /\ persisted' = persisted /\ configWrites' = configWrites
  /\ now' = now /\ pollCount' = pollCount
  /\ task' = task /\ posted' = posted

\* C21 as the spec has it: a prompt that is declined or canceled ends the
\* attempt with the user-cancel error (only the cancel symbol counts at the
\* continuous-deployment question), the rebuild question included, and nothing
\* is sent, built, written, uploaded or polled after it.
C21_DeclineOrCancelEnds ==
  [][/\ (pc \in RefusablePrompts \cup {"confirmRebuild"} /\ pc' # pc
           /\ answer' \in {Some("no"), Some("cancel")}) => EndsCanceled
     /\ (pc \in CancelablePrompts /\ pc' # pc /\ answer' = Some("cancel")) => EndsCanceled
     /\ pc = "failed" => UNCHANGED vars
    ]_vars

\* C21: the cancel symbol at any prompt, and "no" at the login offer, the
\* overwrite confirmation, the create-app confirmation and the build-now
\* question, end the attempt at once with the user-cancel error (not printed,
\* exit code 0), and nothing is sent, built, written, uploaded or polled after
\* it.  "No" at the rebuild question and at the continuous-deployment question
\* is an answer: the attempt goes on, without a build or with a local build.
C21_CancelEnds ==
  [][/\ (pc \in RefusablePrompts /\ pc' # pc /\ answer' \in {Some("no"), Some("cancel")})
          => EndsCanceled
     /\ (pc \in CancelablePrompts /\ pc' # pc /\ answer' = Some("cancel")) => EndsCanceled
     /\ (pc = "confirmRebuild" /\ pc' # pc /\ answer' = Some("no"))
          => (pc' = "returnBuildFilePaths" /\ err' = NoError /\ sent' = sent)
     /\ (pc = "confirmContinuousDeployment" /\ pc' # pc /\ answer' = Some("no"))
          => (pc' = "setDeployConfig" /\ loadedConfig'[1].continuousDeployment = Some(FALSE))
     /\ (pc' = "failed" /\ err' \in UserCancelErrors)
          => (pc \in RefusablePrompts \cup CancelablePrompts /\ answer' \in {Some("no"), Some("cancel")})
     /\ pc = "failed" => UNCHANGED vars
    ]_vars

C21_Witness ==
  /\ pc = "failed"
  /\ err = UserCanceled("User canceled deploy")
  /\ answer = Some("cancel")
  /\ sent.builds = 1
  /\ sent.deploys = 0
  /\ deployConfig # None

\* getBuildFilePaths has read --deploy, and findBuildFiles has found no build
\* files.
ForcedDeployWithoutBuild ==
  build.force = Some(Some("deploy")) /\ build.found = Some(FALSE)

\* C22: with force "deploy" and no build files the attempt fails at once with
\* the no-build-files error: getBuildFilePaths asks nothing, builds nothing,
\* and no deploy is created then or later.  With force "deploy" the build is
\* never run.
C22_ForceDeployNeverBuilds ==
  [][/\ (pc = "getBuildFilePaths" /\ pc' # pc /\ ForcedDeployWithoutBuild')
          => /\ pc' = "failed"
             /\ err' = CliError("No build files found.")
             /\ sent' = sent /\ answer' = answer
     /\ sent'.builds # sent.builds
          => (pc = "build" /\ build.force # Some(Some("deploy")))
     /\ (build'.force = Some(Some("deploy")) /\ pc' # pc)
          => pc' \notin {"build", "confirmBuildNow", "checkBuildAge", "confirmRebuild"}
     /\ pc = "failed" => UNCHANGED vars
    ]_vars

C22_Witness ==
  /\ pc = "failed"
  /\ ForcedDeployWithoutBuild
  /\ err = CliError("No build files found.")
  /\ deployOptions.isTty
  /\ sent.builds = 0 /\ sent.deploys = 0 /\ sent.manifests = 0

\* C23: without a terminal, with the build files found, the build is run if
\* and only if force is "build"; otherwise the files are returned as they are,
\* with no modification time read and no prompt.  Without a terminal, without
\* build files and without force, the build is run.
C23_NonInteractiveBuild ==
  [][/\ (pc = "getBuildFilePaths" /\ pc' # pc /\ ~deployOptions.isTty
           /\ build'.found = Some(TRUE))
          => /\ answer' = answer /\ sent' = sent
             /\ build'.least = None /\ build'.most = None /\ build'.initialValue = None
             /\ IF build'.force = Some(Some("build"))
                  THEN pc' = "build"
                  ELSE pc' = "returnBuildFilePaths"
     /\ (pc = "getBuildFilePaths" /\ pc' # pc /\ ~deployOptions.isTty
           /\ build'.found = Some(FALSE) /\ build'.force = Some(None))
          => (pc' = "build" /\ answer' = answer)
     /\ (pc = "build" /\ pc' # pc) => sent'.builds = sent.builds + 1
     /\ (pc = "returnBuildFilePaths" /\ pc' # pc)
          => /\ sent' = sent
             /\ buildFilePaths' > 0
             /\ pc' \in {"uploadFiles", "createNewDeploy"}
             /\ (~deployOptions.isTty /\ build.found = Some(TRUE))
                  => (sent.builds = 1 <=> build.force = Some(Some("build")))
     /\ ~deployOptions.isTty
          => pc' \notin {"confirmBuildNow", "checkBuildAge", "confirmRebuild"}
    ]_vars

C23_Witness ==
  /\ pc = "returnBuildFilePaths"
  /\ ~deployOptions.isTty
  /\ build.found = Some(TRUE)
  /\ build.force = Some(Some("deploy"))
  /\ sent.builds = 0

\* A source file or the cache directory is newer than the oldest build file.
SourceNewer == build.most # Some(None) /\ build.most[1][1] > build.least[1]

\* The oldest build file is more than five minutes old.
BuildOld == now - build.least[1] > 1000 * 60 * 5

\* C24 as the spec has it: at a terminal, with build files and without force,
\* the rebuild question is asked if and only if the source is newer than the
\* build or the build is more than five minutes old, and suggests "yes" when
\* the source is newer.
C24_AsksOnlyWhenStale ==
  [][(pc = "checkBuildAge" /\ pc' \notin {pc, "failed"})
       => /\ pc' = "confirmRebuild" <=> (SourceNewer' \/ BuildOld')
          /\ SourceNewer' => build'.initialValue = Some(TRUE)
    ]_vars

\* C24: at a terminal, with build files and without force, the rebuild
\* question is always asked, once the modification times are read, and nowhere
\* else; it suggests "yes" if and only if the source is newer than the oldest
\* build file or that file is more than five minutes old.
C24_AlwaysAsksAtTerminal ==
  [][/\ (pc = "getBuildFilePaths" /\ pc' # pc /\ deployOptions.isTty
           /\ build'.found = Some(TRUE) /\ build'.force = Some(None))
          => pc' = "checkBuildAge"
     /\ (pc = "checkBuildAge" /\ pc' \notin {pc, "failed"})
          => /\ pc' = "confirmRebuild"
             /\ build'.initialValue = Some(SourceNewer' \/ BuildOld')
             /\ sent' = sent
     /\ (pc' = "confirmRebuild" /\ pc' # pc)
          => /\ pc = "checkBuildAge"
             /\ deployOptions.isTty
             /\ build.found = Some(TRUE) /\ build.force = Some(None)
    ]_vars

C24_Witness ==
  /\ pc = "confirmRebuild"
  /\ ~SourceNewer /\ ~BuildOld
  /\ build.initialValue = Some(FALSE)
  /\ build.most # Some(None)

\* C28 as the spec has it: a target still to be created has a title that is
\* not empty and a slug that matches ^[a-z0-9-]+$, and so has every
\* project-creation request.
C28_CreateHasTitleAndSlug ==
  (deployTarget # None /\ deployTarget[1].create)
    => /\ deployTarget[1].title # <<>>
       /\ matchesSlug(deployTarget[1].projectSlug)

\* The deploy-scoped requests of an attempt that uploads files: the manifest,
\* the file uploads, the mark-uploaded call and the status requests.
DeployScopedSent ==
  sent.manifests > 0 \/ sent.filePosted \/ sent.uploaded > 0 \/ sent.polled

\* C25: in an attempt that uploads files, the manifest submission, every file
\* upload, the mark-uploaded call and every status request of the completion
\* poll name one deploy id.  In a new deploy built locally it is the id of the
\* deploy this attempt's createNewDeploy created, in resume mode the id of
\* the options; once the attempt has its id the id never changes, and no
\* request names another.
C25_OneDeployId ==
  [][ /\ (LocalAttempt' /\ deployId' # None) => sent'.ids \subseteq {deployId'[1]}
      /\ (~resumeMode /\ LocalAttempt' /\ deployId' = None) => sent'.ids = {}
      /\ resumeMode => /\ sent'.ids \subseteq {deployOptions.deployId[1]}
                       /\ deployId' # None => deployId' = deployOptions.deployId
                       /\ DeployScopedSent' => deployId' # None
      /\ deployId # None => deployId' = deployId
      /\ (~resumeMode /\ LocalAttempt' /\ deployId = None /\ deployId' # None)
           => /\ pc = "createNewDeploy" /\ sent'.deploys = sent.deploys + 1
              /\ deployId' = latestCreatedDeployId'
              /\ deployId' # latestCreatedDeployId
      /\ (~resumeMode /\ LocalAttempt' /\ deployId' # None)
           => deployId' = latestCreatedDeployId' ]_vars

\* A new deploy built locally for a project that had a deploy before has sent
\* every kind of deploy-scoped request, all naming the second deploy.
C25_Witness ==
  /\ ~resumeMode /\ LocalAttempt
  /\ pc = "done"
  /\ deployId = Some(2)
  /\ sent.ids = {2}
  /\ sent.manifests = 1 /\ sent.filePosted /\ sent.uploaded = 1 /\ sent.polled


\* C26: deploy() returns only from the completion poll, in either branch, and
\* what it returns is the record of this attempt's deploy with the status
\* "uploaded", answered to a status request of the poll; every other end of
\* the attempt is an error thrown, and an attempt that can take no step has
\* returned or thrown.
C26_ReturnsUploadedRecord ==
  [][ /\ (pc' = "done" /\ pc # "done") => pc = "pollForProcessingCompletion"
      /\ pc' = "done" <=> result' # None
      /\ pc' = "failed" <=> err' # NoError
      /\ result' # None =>
           /\ deployId' # None
           /\ result' = Some([id |-> deployId'[1], status |-> "uploaded"])
           /\ deployInfo' = Some("uploaded")
           /\ sent'.polled /\ deployId'[1] \in sent'.ids
           /\ err' = NoError
      /\ (~ENABLED Next)' => pc' \in {"done", "failed"} ]_vars

\* The end-to-end case of a fresh project: the app is created, the first
\* deploy of the project is created, a file marked "upload" is posted, the
\* deploy is marked uploaded and the poll answers "uploaded".
C26_Witness ==
  /\ pc = "done"
  /\ sent.projects = 1 /\ sent.deploys = 1
  /\ deployTarget # None /\ ~deployTarget[1].create
  /\ deployId = Some(1)
  /\ sent.manifests = 1 /\ sent.filePosted /\ sent.uploadedDone /\ sent.polled
  /\ result = Some([id |-> 1, status |-> "uploaded"])


\* The HTTP statuses no call site gives a meaning of its own.
GenericStatuses == HttpStatuses \ {"401", "403", "404"}

\* C27 as the spec has it: a transport error with a status other than 401,
\* 403 and 404 reaches the top level as it was raised, so no attempt ends
\* with another error made from it; the status request of resume mode is
\* one of the requests this is said of.
C27_GenericErrorsPropagate ==
  [][ (pc' = "failed" /\ pc # "failed") =>
        (err'.kind = "CliError" => \A h \in GenericStatuses : err'.detail # Some(h)) ]_vars


\* The errors of an invalid deploy.json.
InvalidConfigErrors ==
  {CliError("Found invalid workspace login"), CliError("Found invalid projectSlug")}

\* The persisted login or slug is there and does not match its pattern.
PersistedMismatch(config) ==
  \/ config.workspaceLogin # None /\ ~matchesLogin(config.workspaceLogin[1])
  \/ config.projectSlug # None /\ ~matchesSlug(config.projectSlug[1])

\* The same, of a login or slug that is not the empty string.
PersistedNonEmptyMismatch(config) ==
  \/ config.workspaceLogin \notin {None, Some(<<>>)} /\ ~matchesLogin(config.workspaceLogin[1])
  \/ config.projectSlug \notin {None, Some(<<>>)} /\ ~matchesSlug(config.projectSlug[1])

\* C29 as the spec has it: a persisted login that does not match
\* ^@?[a-z0-9-]+$ or a persisted slug that does not match ^[a-z0-9-]+$ ends
\* the attempt with the configuration error before any project lookup,
\* creation or config write, and deploy.json keeps the value.
C29_MismatchIsFatal ==
  [][ (pc = "getUpdatedDeployConfig" /\ PersistedMismatch(loadedConfig[1])) =>
        /\ pc' = "failed" /\ err' \in InvalidConfigErrors
        /\ sent' = sent /\ sent.targets = 0 /\ sent.projects = 0
        /\ configWrites' = 0 /\ persisted' = persisted ]_vars

\* C29: a persisted login that is not empty and does not match
\* ^@?[a-z0-9-]+$, or a persisted slug that is not empty and does not match
\* ^[a-z0-9-]+$, ends the attempt with the configuration error before any
\* project lookup, creation or config write, and deploy.json keeps the value;
\* no other config ends with that error.
C29_NonEmptyMismatchIsFatal ==
  [][ pc = "getUpdatedDeployConfig" =>
        IF PersistedNonEmptyMismatch(loadedConfig[1])
          THEN /\ pc' = "failed" /\ err' \in InvalidConfigErrors
               /\ sent' = sent /\ sent.targets = 0 /\ sent.projects = 0
               /\ configWrites' = 0 /\ persisted' = persisted
               /\ persisted = loadedConfig
          ELSE err' \notin InvalidConfigErrors ]_vars

\* deploy.json has a valid login and a slug with an upper-case letter: the
\* attempt has failed on the slug, and has looked up, created and written
\* nothing.
C29_Witness ==
  /\ pc = "failed"
  /\ err = CliError("Found invalid projectSlug")
  /\ persisted # None
  /\ persisted[1].workspaceLogin = Some(Login1)
  /\ persisted[1].projectSlug = Some(BadSlug)
  /\ sent.targets = 0 /\ sent.projects = 0 /\ configWrites = 0


(* ---------------------- the polling loops run on ---------------------- *)

\* An attempt at a terminal.
PollInit ==
  /\ Init
  /\ deployOptions.isTty
  /\ deployOptions.maxConcurrency = None

\* A step of validateGitHubLink or of one of the three polling loops.
PollStep ==
  \/ ValidateGitHubLink \/ CheckGitHubLink
  \/ AuthorizationSleep \/ AuthorizationPoll
  \/ PostProjectEnvironment
  \/ CloudBuildPoll \/ CloudBuildSleep
  \/ PollForProcessingCompletion \/ PollSleep

\* The clock goes on, so every sleep ends; every request comes back, with an
\* answer or an error; and the local reads of validateGitHubLink return.
PollSpec ==
  /\ PollInit
  /\ [][Next]_vars
  /\ WF_vars(PollStep)

\* The positions of validateGitHubLink.
LinkValidation ==
  {"validateGitHubLink", "checkGitHubLink", "postProjectEnvironment"} \cup AuthorizationLoop

\* The errors of the three deadlines.
TimeoutErrors ==
  {CliError("Requesting deploy failed"), CliError("Repository authorization failed")}
    \cup {CliErrorWith("Deploy failed to process on server: status = ", s) :
             s \in Statuses \cup {"undefined"}}

\* C30: while the clock advances and the requests return, each of the three
\* polling loops is left: by its terminal condition, by an error, or by the
\* timeout error, which is thrown only after the deadline fixed on entering
\* the loop, five minutes after the entry, and is thrown then; the timeout
\* error is not the user-cancel error.  So validateGitHubLink always ends: it
\* returns, and cloudBuild is next, or it throws.  (The attempt is again and
\* again outside validateGitHubLink and the loops, so it leaves each of them
\* whenever it is inside; the steps out of validateGitHubLink go to cloudBuild
\* or to the failure.)
C30_PollLoopsTerminate ==
  /\ []<>(pc \notin LinkValidation \cup CloudBuildLoop \cup CompletionLoop)
  /\ [][ /\ DeadlineFixedAtEntry
         /\ (pc \in {"pollForProcessingCompletion", "cloudBuildPoll", "authorizationPoll"}
               /\ pc' # pc) =>
              /\ now > pollExpiration => (pc' = "failed" /\ err' \in TimeoutErrors)
              /\ (pc' = "failed" /\ err' \in TimeoutErrors) => now > pollExpiration
         /\ (pc' = "failed" /\ err' \in TimeoutErrors) =>
              /\ err' \notin UserCancelErrors
              /\ err'.detail \notin {Some(<<"print: false", "exitCode: 0">>)}
         /\ (pc \in LinkValidation /\ pc' \notin LinkValidation) =>
              pc' \in {"cloudBuild", "failed"} ]_vars

\* The cloud-build loop has polled, slept past its deadline and given up.
C30_Witness ==
  /\ pc = "failed"
  /\ err = CliError("Requesting deploy failed")
  /\ pollCount >= 1
  /\ now > pollExpiration


\* The first positions of promptDeployTarget after its tests.
PromptEntry == {"getWorkspaceProjects", "selectWorkspace"}

\* C31: with a config that names both the workspace login and the project
\* slug the project is fetched directly.  A 404 never ends the attempt: the
\* resolution goes on to promptDeployTarget, which fails with "Deploy not
\* configured." without a terminal.  Every other failure of the fetch ends
\* the attempt with that error, and no prompt was shown.
C31_NotFoundFallsThrough ==
  [][ (pc = "getDeployTarget" /\ namesProject(loadedConfig[1]) /\ pc' # pc) =>
        /\ sent'.targets = sent.targets + 1
        /\ \/ /\ pc' = "checkDeployTarget"
              /\ deployTarget' = Some(ExistingTarget)
           \/ /\ pc' = "failed"
              /\ err' \in {HttpError(h) : h \in HttpStatuses \ {"404"}}
              /\ answer' = None /\ prompt' = NoPrompt /\ deployTarget' = None
           \/ /\ ~deployOptions.isTty
              /\ pc' = "failed"
              /\ err' = CliError("Deploy not configured.")
              /\ answer' = None /\ deployTarget' = None
           \/ /\ deployOptions.isTty
              /\ deployTarget' = None
              /\ \/ pc' \in PromptEntry
                 \/ pc' = "failed" /\ err'.msg = "No Observable workspace found." ]_vars

\* deploy.json names the workspace and the project, there is no terminal, and
\* the attempt has failed as not configured: the fetch answered 404.
C31_Witness ==
  /\ pc = "failed"
  /\ err = CliError("Deploy not configured.")
  /\ ~deployOptions.isTty
  /\ loadedConfig # None /\ namesProject(loadedConfig[1])
  /\ sent.targets = 1


\* C32: markDeployUploaded sends the mark-uploaded request whatever reading
\* the cached build manifest gave: a missing file, a read error and a parse
\* error throw nothing and the payload is null; with the manifest found the
\* payload is the manifest.  Only the request can fail the step, and an
\* attempt that uploads and gets past the step has sent the request once.
C32_MarkUploadedOnce ==
  [][ /\ (pc = "markDeployUploaded" /\ pc' # pc) =>
           /\ pc' = "postDeployUploaded" /\ err' = NoError
           /\ sent.uploaded = 0 /\ sent'.uploaded = 1
           /\ sent'.buildManifestRead # None
           /\ sent'.buildManifest =
                Some(IF sent'.buildManifestRead = Some("found") THEN "manifest" ELSE "null")
      /\ (pc = "postDeployUploaded" /\ pc' # pc) =>
           /\ sent'.uploaded = sent.uploaded
           /\ \/ pc' = "pollForProcessingCompletion" /\ sent'.uploadedDone
              \/ pc' = "failed" /\ isHttpError(err')
      /\ sent'.uploaded <= 1
      /\ (LocalAttempt' /\ (pc' \in CompletionLoop \/ pc' = "done")) => sent'.uploaded = 1
    ]_vars

\* The cached build manifest could not be parsed, and the request is out with
\* the payload null.
C32_Witness ==
  /\ pc = "postDeployUploaded"
  /\ sent.buildManifestRead = Some("parse error")
  /\ sent.buildManifest = Some("null")
  /\ sent.uploaded = 1


\* C33: an attempt on the continuous-deployment branch never builds locally,
\* creates no deploy itself, submits no manifest, uploads no file and does
\* not mark a deploy uploaded.  After validateGitHubLink it triggers the
\* cloud build once, polls the project until it names a new deploy, and goes
\* from that poll straight to the completion poll with that id.
C33_CloudBranchUploadsNothing ==
  [][ CloudAttempt' =>
        /\ sent'.builds = 0 /\ sent'.deploys = 0 /\ sent'.manifests = 0
        /\ ~sent'.filePosted /\ sent'.uploaded = 0
        /\ buildFilePaths' = 0 /\ build' = NoBuild
        /\ (pc = "startNewDeploy" /\ pc' # pc) => pc' = "validateGitHubLink"
        /\ (pc' = "cloudBuild" /\ pc' # pc) => (pc \in LinkValidation /\ sent'.triggers = 0)
        /\ sent'.triggers # sent.triggers =>
             (pc = "cloudBuild" /\ sent.triggers = 0 /\ sent'.triggers = 1)
        /\ (pc' \in CloudBuildLoop \cup CompletionLoop \cup {"done"}) => sent'.triggers = 1
        /\ (pc' \in CloudBuildLoop /\ pc' # pc) => pc \in CloudBuildLoop \cup {"cloudBuild"}
        /\ (pc' = "pollForProcessingCompletion" /\ pc \notin CompletionLoop) =>
             /\ pc = "cloudBuildPoll"
             /\ deployId' = latestCreatedDeployId /\ deployId' # None
             /\ deployId' # deployTarget[1].project.latestCreatedDeployId ]_vars

\* A cloud build has run to the end: one trigger, and nothing uploaded.
C33_Witness ==
  /\ CloudAttempt
  /\ pc = "done"
  /\ sent.triggers = 1
  /\ sent.builds = 0 /\ sent.deploys = 0 /\ sent.manifests = 0 /\ sent.uploaded = 0
  /\ sent.polled


\* POST /cli/project has succeeded: the target is the project created.
ProjectCreated ==
  /\ sent.projects = 1
  /\ deployTarget # None /\ ~deployTarget[1].create
  /\ deployTarget[1].project.id = "p2"

\* C34 as the spec has it: when the project was created, the attempt does not
\* end, whatever the user answered to a later prompt, before deploy.json
\* records the id, the slug and the workspace login of the project created.
C34_CreatedProjectPersisted ==
  (ProjectCreated /\ pc \in {"done", "failed"}) =>
    /\ persisted # None
    /\ persisted[1].projectId = Some(deployTarget[1].project.id)
    /\ persisted[1].projectSlug = Some(deployTarget[1].project.slug)
    /\ persisted[1].workspaceLogin = Some(deployTarget[1].workspace.login)


\* The deploy the cloud-build poll hands over was created after the trigger
\* arrived: the server creates deploys with growing ids.
CreatedAfterTrigger(id, latestAtTrigger) ==
  id # None /\ (latestAtTrigger = None \/ id[1] > latestAtTrigger[1])

\* C35 as the spec has it: the deploy id the cloud-build poll returns is the
\* id of a deploy created on the server after this attempt's trigger, also
\* when another client created a deploy of the project between the
\* resolution of the target and the trigger.
C35_DeployCreatedAfterTrigger ==
  [][ (pc = "cloudBuildPoll" /\ pc' = "pollForProcessingCompletion") =>
        CreatedAfterTrigger(deployId', sent.latestAtTrigger[1]) ]_vars


\* The positions of getBuildFilePaths.
GettingBuildFiles ==
  {"getBuildFilePaths", "confirmBuildNow", "checkBuildAge", "confirmRebuild", "build",
   "returnBuildFilePaths"}

\* C36: an attempt calls the build at most once, and a new deploy built
\* locally creates its deploy only when getBuildFilePaths has returned the
\* list of build files: an attempt that fails inside getBuildFilePaths (the
\* build fails, there are no build files after it, the user cancels or
\* declines) has created no deploy.
C36_DeployAfterBuildFiles ==
  [][ /\ sent'.builds <= 1
      /\ sent'.builds # sent.builds => (pc = "build" /\ sent.builds = 0)
      /\ sent'.deploys # sent.deploys =>
           /\ pc = "createNewDeploy"
           /\ buildFilePaths >= 1 /\ build = NoBuild
      /\ (pc = "createNewDeploy" /\ pc' # pc) => buildFilePaths >= 1
      /\ (pc' = "createNewDeploy" /\ pc' # pc) => pc = "returnBuildFilePaths"
      /\ (pc \in GettingBuildFiles /\ ~resumeMode) =>
           (sent'.deploys = 0 /\ deployId' = None /\ latestCreatedDeployId' = latestCreatedDeployId)
    ]_vars

\* The build has run and left no build files: the attempt has failed, and no
\* deploy was created.
C36_Witness ==
  /\ ~resumeMode
  /\ pc = "failed"
  /\ err = CliError("No build files found at")
  /\ sent.builds = 1
  /\ sent.deploys = 0 /\ deployId = None


\* The local repository is the one recorded as the source, HEAD is on the
\* branch recorded, and no lookup of the linked repository was refused.
MatchesSourceLink ==
  /\ localRepo # None
  /\ localRepo[1].provider_id = link.source[1].provider_id
  /\ link.head[1] = link.source[1].branch
  /\ link.remoteAuthedRepo # Some(None)

\* C37 as the spec has it: for a project with a source link, when the local
\* repository has the provider id recorded, the branch git reports for HEAD
\* is the branch recorded and the linked repository is accessible,
\* validateGitHubLink returns without submitting a source link, and the
\* cloud build is next.
C37_MatchingLinkPasses ==
  [][ (ComparesSourceLink /\ MatchesSourceLink /\ pc' # pc) =>
        (pc' = "cloudBuild" /\ err' = NoError /\ sent'.sourceLinks = 0) ]_vars


\* getDeployTarget holds an existing project, and deploy.json had no projectId.
ProjectIdMissing ==
  /\ deployTarget # None /\ loadedConfig # None
  /\ ~deployTarget[1].create
  /\ loadedConfig[1].projectId = None

\* C38: when the target resolved is an existing project and deploy.json has no
\* projectId, the attempt without a terminal fails with "cancelling due to
\* conflict", deploy.json is what was read and no deploy was created, and it
\* stays so; with a terminal it asks, and goes on only if the user confirms the
\* overwrite.  The check lets an existing project through without asking only
\* when the projectId of deploy.json is the id of that project.
C38_MissingProjectIdNeedsConfirmation ==
  [][/\ (ProjectIdMissing /\ pc = "checkDeployTarget" /\ pc' # pc)
          => IF deployOptions.isTty
               THEN pc' = "confirmOverwrite" /\ err' = NoError
               ELSE /\ pc' = "failed"
                    /\ err' = CliError("Running non-interactively, cancelling due to conflict.")
                    /\ persisted' = loadedConfig /\ configWrites' = 0
                    /\ sent'.deploys = 0 /\ deployId' = None
     /\ (ProjectIdMissing /\ pc = "confirmOverwrite" /\ pc' # pc)
          => /\ deployOptions.isTty
             /\ IF answer' = Some("yes")
                  THEN pc' = "getContinuousDeployment" /\ err' = NoError
                  ELSE pc' = "failed" /\ err' = UserCanceled("User canceled deploy")
     /\ (pc = "checkDeployTarget" /\ ~deployTarget[1].create /\ pc' = "getContinuousDeployment")
          => loadedConfig[1].projectId = Some(deployTarget[1].project.id)
     /\ (pc = "failed" /\ ProjectIdMissing)
          => (pc' = "failed" /\ sent' = sent /\ persisted' = persisted /\ deployId' = deployId)
    ]_vars

\* Without a terminal, the project named by deploy.json exists and deploy.json
\* has no projectId: the attempt has failed on the conflict, with nothing
\* written and no deploy created.
C38_Witness ==
  /\ ProjectIdMissing
  /\ ~deployOptions.isTty
  /\ pc = "failed"
  /\ err = CliError("Running non-interactively, cancelling due to conflict.")
  /\ persisted = loadedConfig
  /\ sent.deploys = 0 /\ deployId = None


====
